---- MODULE Spec2Model ----
(***************************************************************************)
(* Model of the schema diff engine, the endpoint-set comparison, the       *)
(* snapshot store adapter and the scheduled scan of NL2Flow.               *)
(*                                                                         *)
(* Python values are modelled with their runtime type: a value is a record *)
(* [t |-> <type name>, v |-> <payload>], because diff_schemas branches on   *)
(* type(old) != type(new) while Python's == compares an int, a float and a *)
(* bool by number.                                                         *)
(***************************************************************************)
EXTENDS Integers, Sequences, FiniteSets, TLC

(***************************************************************************)
(* Python values                                                           *)
(***************************************************************************)
PyNone == [t |-> "NoneType", v |-> 0]
PyInt(n) == [t |-> "int", v |-> n]
PyFloat(n) == [t |-> "float", v |-> n]
PyStr(s) == [t |-> "str", v |-> s]
PyDict(f) == [t |-> "dict", v |-> f]
PyList(s) == [t |-> "list", v |-> s]
EmptyDict == PyDict([k \in {} |-> PyNone])
EmptyList == PyList(<<>>)

PyDecimal(n) == [t |-> "Decimal", v |-> n]

NumericTypes == {"int", "float", "bool", "Decimal"}

\* Python's == on JSON values: numbers compare by value whatever their type,
\* dicts key by key, lists element by element.
RECURSIVE PyEq(_, _)
PyEq(a, b) ==
    IF a.t \in NumericTypes /\ b.t \in NumericTypes THEN a.v = b.v
    ELSE IF a.t # b.t THEN FALSE
    ELSE IF a.t = "dict" THEN
        /\ DOMAIN a.v = DOMAIN b.v
        /\ \A k \in DOMAIN a.v : PyEq(a.v[k], b.v[k])
    ELSE IF a.t = "list" THEN
        /\ Len(a.v) = Len(b.v)
        /\ \A i \in 1..Len(a.v) : PyEq(a.v[i], b.v[i])
    ELSE a.v = b.v

\* The order in which Python iterates a set of keys is arbitrary; the model
\* fixes one order. No property below depends on it.
RECURSIVE SetToSeq(_)
SetToSeq(S) ==
    IF S = {} THEN <<>>
    ELSE LET x == CHOOSE y \in S : TRUE IN <<x>> \o SetToSeq(S \ {x})

RECURSIVE Flatten(_)
Flatten(ss) == IF ss = <<>> THEN <<>> ELSE Head(ss) \o Flatten(Tail(ss))

Range(s) == {s[i] : i \in DOMAIN s}

Min(a, b) == IF a < b THEN a ELSE b

(***************************************************************************)
(* schema_diff.py                                                          *)
(***************************************************************************)
\* Mutant: an entry that carries its two values in the wrong fields.
DiffEntry_swapped(op, path, old, new) ==
    IF op = "add" THEN [op |-> op, path |-> path, old |-> new, new |-> old]
    ELSE [op |-> op, path |-> path, old |-> old, new |-> new]

\* Mutant: a key that holds None on its one side is reported as a change.
DiffEntry_none_as_change(op, path, old, new) ==
    IF op \in {"add", "remove"} /\ old = PyNone /\ new = PyNone
        THEN [op |-> "change", path |-> path, old |-> old, new |-> new]
        ELSE [op |-> op, path |-> path, old |-> old, new |-> new]

\* {"op": ..., "path": ..., "old": ..., "new": ...}
DiffEntry(op, path, old, new) == [op |-> op, path |-> path, old |-> old, new |-> new]

\* Mutant: the key is always joined with a slash, at the top level too.
KeyPath_always_slash(path, key) == path \o "/" \o key

\* f"{path}/{key}" if path else key
KeyPath(path, key) == IF path # "" THEN path \o "/" \o key ELSE key

\* Mutant: a type test that sees one "number" shape instead of int and float.
TypeOf_by_shape(x) == IF x.t \in NumericTypes THEN "number" ELSE x.t

\* type(x)
TypeOf(x) == x.t

\* Mutant: list positions counted from 1.
IndexPath_from_one(path, i) == path \o "[" \o ToString(i + 1) \o "]"

\* f"{path}[{i}]", i counted from 0
IndexPath(path, i) == path \o "[" \o ToString(i) \o "]"

\* Mutant: keys present on one side only are skipped.
OnlyIn_skipped(keys, other_keys) == {}

\* old_keys - new_keys, new_keys - old_keys
OnlyIn(keys, other_keys) == keys \ other_keys

RECURSIVE diff_schemas(_, _, _)
diff_schemas(old, new, path) ==
    IF TypeOf(old) # TypeOf(new) THEN << DiffEntry("change", path, old, new) >>
    ELSE IF old.t = "dict" THEN
        LET old_keys == DOMAIN old.v
            new_keys == DOMAIN new.v
            removed == SetToSeq(OnlyIn(old_keys, new_keys))
            added == SetToSeq(OnlyIn(new_keys, old_keys))
            common == SetToSeq(old_keys \cap new_keys)
        IN  [i \in 1..Len(removed) |->
                DiffEntry("remove", KeyPath(path, removed[i]), old.v[removed[i]], PyNone)]
            \o [i \in 1..Len(added) |->
                DiffEntry("add", KeyPath(path, added[i]), PyNone, new.v[added[i]])]
            \o Flatten([i \in 1..Len(common) |->
                diff_schemas(old.v[common[i]], new.v[common[i]], KeyPath(path, common[i]))])
    ELSE IF old.t = "list" THEN
        LET min_len == Min(Len(old.v), Len(new.v))
        IN  Flatten([i \in 1..min_len |->
                diff_schemas(old.v[i], new.v[i], IndexPath(path, i - 1))])
            \o [j \in 1..(Len(old.v) - min_len) |->
                DiffEntry("remove", IndexPath(path, min_len + j - 1), old.v[min_len + j], PyNone)]
            \o [j \in 1..(Len(new.v) - min_len) |->
                DiffEntry("add", IndexPath(path, min_len + j - 1), PyNone, new.v[min_len + j])]
    ELSE IF old.v # new.v THEN << DiffEntry("change", path, old, new) >>
    ELSE <<>>

diff_schema_versions(schema1, schema2) == diff_schemas(schema1, schema2, "")

(***************************************************************************)
(* Bounded JSON trees: the inputs of the diff                              *)
(***************************************************************************)
\* Nodes of the two compared trees together (a scalar, a dict and a list
\* count one each).
MaxNodes == 5

Keys == {"a", "b"}
Scalars == {PyInt(1), PyInt(2), PyFloat(1), PyNone}

RECURSIVE TreesOfSize(_), Forests(_, _)
\* Sequences of m trees with n nodes in all.
Forests(n, m) ==
    IF m = 0 THEN (IF n = 0 THEN {<<>>} ELSE {})
    ELSE UNION { { <<x>> \o f : x \in TreesOfSize(k), f \in Forests(n - k, m - 1) } :
                 k \in 1..(n - (m - 1)) }

TreesOfSize(n) ==
    IF n < 1 THEN {}
    ELSE IF n = 1 THEN Scalars \cup {EmptyDict, EmptyList}
    ELSE UNION { { PyList(f) : f \in Forests(n - 1, m) } : m \in 1..(n - 1) }
         \cup UNION { LET ks == SetToSeq(K)
                      IN { PyDict([k \in K |-> f[CHOOSE i \in 1..Len(ks) : ks[i] = k]]) :
                           f \in Forests(n - 1, Cardinality(K)) } :
                      K \in (SUBSET Keys) \ {{}} }

RECURSIVE Size(_)
Size(x) ==
    IF x.t = "dict" THEN
        LET ks == SetToSeq(DOMAIN x.v)
            RECURSIVE Sum(_)
            Sum(i) == IF i = 0 THEN 0 ELSE Size(x.v[ks[i]]) + Sum(i - 1)
        IN 1 + Sum(Len(ks))
    ELSE IF x.t = "list" THEN
        LET RECURSIVE Sum(_)
            Sum(i) == IF i = 0 THEN 0 ELSE Size(x.v[i]) + Sum(i - 1)
        IN 1 + Sum(Len(x.v))
    ELSE 1

\* The scenarios of the repository's tests (tests/test_main.py), which are
\* larger than MaxNodes allows.
TestPairs == {
    << PyDict([x |-> PyDict([y |-> PyList(<<PyInt(1), PyInt(2), PyInt(3)>>)]), z |-> PyStr("foo")]),
       PyDict([x |-> PyDict([y |-> PyList(<<PyInt(1), PyInt(2), PyInt(3)>>)]), z |-> PyStr("foo")]) >>,
    << PyDict([a |-> PyDict([b |-> PyDict([c |-> PyInt(1)])])]),
       PyDict([a |-> PyDict([b |-> PyDict([c |-> PyInt(2), d |-> PyInt(3)])])]) >>,
    << PyDict([a |-> PyDict([b |-> PyInt(1)])]),
       PyDict([a |-> PyList(<<PyInt(1), PyInt(2), PyInt(3)>>)]) >>,
    << PyDict([a |-> PyInt(1), b |-> PyInt(2), c |-> PyInt(3)]),
       PyDict([a |-> PyInt(1), b |-> PyInt(20), d |-> PyInt(4)]) >>,
    << PyDict([arr |-> PyList(<<PyInt(1), PyInt(2), PyInt(3)>>)]),
       PyDict([arr |-> PyList(<<PyInt(1), PyInt(4)>>)]) >>
}

DiffInputs ==
    TestPairs \cup
    UNION { TreesOfSize(n) \X UNION { TreesOfSize(m) : m \in 1..(MaxNodes - n) } :
            n \in 1..(MaxNodes - 1) }

(***************************************************************************)
(* Endpoint-set comparison (lambda_functions/scheduled_scanner.py)         *)
(*                                                                         *)
(* The repository holds two scheduled_scanner modules: app/ (module-level  *)
(* functions, the one the tests import) and src/app/ (classes). Both are   *)
(* modelled. A Python dict is a record; item['k'] on a dict without the    *)
(* key raises KeyError.                                                    *)
(***************************************************************************)
HasKey(item, k) == k \in DOMAIN item

NoChanges(raised) ==
    [raised |-> raised, added_endpoints |-> <<>>, removed_endpoints |-> <<>>,
     modified_endpoints |-> <<>>, total_changes |-> 0]

\* {(item['endpoint'], item['method']) for item in schema}
EndpointKeysOf(schema) == { <<schema[i].endpoint, schema[i].method>> : i \in DOMAIN schema }

\* Mutant: every endpoint of the new snapshot is reported as added.
AddedKeys_all_new(old_endpoints, new_endpoints) == new_endpoints

\* added = new_endpoints - old_endpoints
AddedKeys(old_endpoints, new_endpoints) == new_endpoints \ old_endpoints

\* removed = old_endpoints - new_endpoints
RemovedKeys(old_endpoints, new_endpoints) == old_endpoints \ new_endpoints

\* next(item for item in schema if item['endpoint'] == endpoint and item['method'] == method)
FirstItem(schema, key) ==
    schema[CHOOSE i \in DOMAIN schema :
        /\ <<schema[i].endpoint, schema[i].method>> = key
        /\ \A j \in 1..(i - 1) : <<schema[j].endpoint, schema[j].method>> # key]

\* The dict comprehension {(item['endpoint'], item['method']): item for ...}:
\* the last item of a key stays.
LastItem(schema, key) ==
    schema[CHOOSE i \in DOMAIN schema :
        /\ <<schema[i].endpoint, schema[i].method>> = key
        /\ \A j \in (i + 1)..Len(schema) : <<schema[j].endpoint, schema[j].method>> # key]

EndpointRef(key) == [path |-> key[1], method |-> key[2]]

\* app/lambda_functions/scheduled_scanner.py: compare_schemas
compare_schemas(old_sch, new_sch) ==
    IF \E i \in DOMAIN old_sch : ~HasKey(old_sch[i], "endpoint") \/ ~HasKey(old_sch[i], "method")
        THEN NoChanges("KeyError")
    ELSE IF \E i \in DOMAIN new_sch : ~HasKey(new_sch[i], "endpoint") \/ ~HasKey(new_sch[i], "method")
        THEN NoChanges("KeyError")
    ELSE
        LET old_endpoints == EndpointKeysOf(old_sch)
            new_endpoints == EndpointKeysOf(new_sch)
            added == SetToSeq(AddedKeys(old_endpoints, new_endpoints))
            removed == SetToSeq(RemovedKeys(old_endpoints, new_endpoints))
            common == old_endpoints \cap new_endpoints
        IN  IF \E k \in common :
                   ~HasKey(FirstItem(old_sch, k), "schema") \/ ~HasKey(FirstItem(new_sch, k), "schema")
                THEN NoChanges("KeyError")
            ELSE
                LET modified == SetToSeq({ k \in common :
                        ~PyEq(FirstItem(old_sch, k).schema, FirstItem(new_sch, k).schema) })
                IN  [raised |-> "none",
                     added_endpoints |-> [i \in 1..Len(added) |-> EndpointRef(added[i])],
                     removed_endpoints |-> [i \in 1..Len(removed) |-> EndpointRef(removed[i])],
                     modified_endpoints |-> [i \in 1..Len(modified) |->
                        [path |-> modified[i][1], method |-> modified[i][2],
                         old_schema |-> FirstItem(old_sch, modified[i]).schema,
                         new_schema |-> FirstItem(new_sch, modified[i]).schema]],
                     total_changes |-> Len(added) + Len(removed) + Len(modified)]

\* src/app: SchemaComparator._compare_fields. _extract_field_paths returns
\* dicts, and `new_fields - old_fields` on two dicts raises TypeError whatever
\* they hold.
_compare_fields(old_item_schema, new_item_schema, endpoint_path) == "TypeError"

\* src/app/lambda_functions/scheduled_scanner.py: SchemaComparator.compare_schemas
SchemaComparator_compare_schemas(old_sch, new_sch) ==
    IF \E i \in DOMAIN old_sch : ~HasKey(old_sch[i], "endpoint") \/ ~HasKey(old_sch[i], "method")
        THEN NoChanges("KeyError")
    ELSE IF \E i \in DOMAIN new_sch : ~HasKey(new_sch[i], "endpoint") \/ ~HasKey(new_sch[i], "method")
        THEN NoChanges("KeyError")
    ELSE
        LET old_endpoints == EndpointKeysOf(old_sch)
            new_endpoints == EndpointKeysOf(new_sch)
            added == SetToSeq(AddedKeys(old_endpoints, new_endpoints))
            removed == SetToSeq(RemovedKeys(old_endpoints, new_endpoints))
            common == old_endpoints \cap new_endpoints
        IN  IF \E k \in common :
                   ~HasKey(LastItem(old_sch, k), "schema") \/ ~HasKey(LastItem(new_sch, k), "schema")
                THEN NoChanges("KeyError")
            ELSE
                LET modified == SetToSeq({ k \in common :
                        ~PyEq(LastItem(old_sch, k).schema, LastItem(new_sch, k).schema) })
                IN  IF modified # <<>>
                        THEN NoChanges(_compare_fields(LastItem(old_sch, modified[1]).schema,
                                                       LastItem(new_sch, modified[1]).schema,
                                                       modified[1]))
                    ELSE
                        [raised |-> "none",
                         added_endpoints |-> [i \in 1..Len(added) |-> EndpointRef(added[i])],
                         removed_endpoints |-> [i \in 1..Len(removed) |-> EndpointRef(removed[i])],
                         modified_endpoints |-> <<>>,
                         total_changes |-> Len(added) + Len(removed)]

(***************************************************************************)
(* The schema table (DynamoDB "ApiSchemaSnapshots")                        *)
(*                                                                         *)
(* delete_item is given Key = {api_name, timestamp} and the scanners query *)
(* on api_name and timestamp: the table's primary key is (api_name,        *)
(* timestamp). put_item replaces the item that has the key of the new one. *)
(* The table is a function from the keys it holds to their items.          *)
(***************************************************************************)
\* str(timestamp): the decimal digits, most significant first.
RECURSIVE Str(_)
Str(n) == IF n < 10 THEN <<n>> ELSE Str(n \div 10) \o <<n % 10>>

\* method.upper()
Upper(m) == CASE m = "get" -> "GET" [] m = "post" -> "POST" [] OTHER -> m

\* json.loads(json.dumps(schema), parse_float=Decimal): a float comes back
\* as a Decimal.
RECURSIVE JsonDecimal(_)
JsonDecimal(x) ==
    IF x.t = "float" THEN PyDecimal(x.v)
    ELSE IF x.t = "dict" THEN PyDict([k \in DOMAIN x.v |-> JsonDecimal(x.v[k])])
    ELSE IF x.t = "list" THEN PyList([i \in DOMAIN x.v |-> JsonDecimal(x.v[i])])
    ELSE x

\* Key = {"api_name": ..., "timestamp": ...}
PrimaryKey(item) == <<item.api_name, item.timestamp>>

EmptyTable == [k \in {} |-> PyNone]

\* table.put_item(Item=item)
PutItem(tbl, item) ==
    [k \in DOMAIN tbl \cup {PrimaryKey(item)} |-> IF k = PrimaryKey(item) THEN item ELSE tbl[k]]

\* The items of the table, in no particular order.
ItemsOf(tbl) == { tbl[k] : k \in DOMAIN tbl }

\* str(e) of a failing table call, by the state of the backend: the message
\* names the error class or code, except for an endpoint that cannot be
\* reached, whose message main.py tests for by its text.
\* "ThrottlingException" stands for any failure the adapter does not name.
CouldNotConnect == "Could not connect to the endpoint URL"

BackendStates ==
    {"available", "NoCredentialsError", "ResourceNotFoundException",
     "EndpointConnectionError", CouldNotConnect, "ThrottlingException"}

\* The backend states in which the table cannot be reached.
Unreachable ==
    {"NoCredentialsError", "ResourceNotFoundException", "EndpointConnectionError",
     CouldNotConnect}

\* The substrings the adapter looks for in str(e).
Markers ==
    {"NoCredentialsError", "botocore.exceptions", "ResourceNotFoundException",
     "EndpointConnectionError", "ConnectTimeoutError"}

\* marker in str(e)
Mentions(err) ==
    { m \in Markers \cup {"ConditionalCheckFailedException"} : m = err }

\* The failures store_schema_snapshot and the other adapter functions swallow.
Swallowed(err) == Mentions(err) \cap Markers # {}

\* metadata or {}
OrEmptyDict(metadata) == IF metadata = PyNone \/ metadata = EmptyDict THEN EmptyDict ELSE metadata

\* utils/dynamodb_snapshots.py: the item store_schema_snapshot builds
SnapshotItem(api_name, endpoint, method, schema, metadata, timestamp) ==
    [api_name |-> api_name, endpoint |-> endpoint, method |-> Upper(method),
     timestamp |-> Str(timestamp), schema |-> JsonDecimal(schema),
     metadata |-> OrEmptyDict(metadata)]

\* The item it echoes when the backend is unreachable: the schema as given.
EchoItem(api_name, endpoint, method, schema, metadata, timestamp) ==
    [api_name |-> api_name, endpoint |-> endpoint, method |-> Upper(method),
     timestamp |-> Str(timestamp), schema |-> schema,
     metadata |-> OrEmptyDict(metadata)]

(***************************************************************************)
(* Bounded snapshots: the inputs of the comparison                         *)
(***************************************************************************)
\* Endpoints of one snapshot.
MaxEndpoints == 2

EndpointIds == { <<"/pets", "GET">>, <<"/pets", "POST">>, <<"/pets/{id}", "GET">> }

\* Stored schema payloads {'input': ..., 'output': ...}. A number read back
\* from the table has another numeric type than the scraped int.
ItemSchemas == {
    PyDict([input |-> EmptyDict, output |-> EmptyDict]),
    PyDict([input |-> PyDict([maxLength |-> PyInt(1)]), output |-> EmptyDict]),
    PyDict([input |-> PyDict([maxLength |-> PyFloat(1)]), output |-> EmptyDict]),
    PyDict([input |-> PyDict([maxLength |-> PyInt(2)]), output |-> EmptyDict])
}

\* Snapshots as the tests build them: items with endpoint, method and schema,
\* one item per (endpoint, method).
SnapshotsOver(ids) ==
    { [i \in 1..Len(SetToSeq(ids)) |->
        [endpoint |-> SetToSeq(ids)[i][1], method |-> SetToSeq(ids)[i][2], schema |-> f[SetToSeq(ids)[i]]]] :
      f \in [ids -> ItemSchemas] }

Snapshots ==
    UNION { SnapshotsOver(ids) : ids \in { x \in SUBSET EndpointIds : Cardinality(x) <= MaxEndpoints } }

(***************************************************************************)
(* State                                                                   *)
(***************************************************************************)
\* One call of the diff: its arguments, its result, and where it stands.
VARIABLES old, new, path, diffs, diff_pc

\* One call of the endpoint-set comparison.
VARIABLES old_schema, new_schema, changes, cmp_pc

\* The schema table, the state of its backend, the last call of the store
\* adapter with what it returned, and (history) what was last put under
\* each (api_name, timestamp, endpoint, method) while the table took it.
VARIABLES table, backend, store_call, store_ret, put_log

\* One deployment of the scheduled scanner: which of the two handlers is
\* deployed, the clock (time.time(), in seconds), the invocations so far,
\* and where the running invocation stands: the source it is at (api_i), the
\* fetch attempt, the locals of the loop body, the results and the
\* notifications of this invocation, and what it returned.
VARIABLES impl, now, scans, scan_pc, api_i, attempt, result_ts, current_endpoints,
          snapshot, previous_schema, scan_results, published, response

\* History of the running invocation: the items of the current source's API
\* before its snapshot was stored, and one record for every source the loop
\* is through with.
VARIABLES prior, hist

\* The calls of the table that have failed under the scanner.
VARIABLES faults

\* The scan metadata table: the scan ids it holds.
VARIABLES metadata_table

\* One formatting of two OpenAPI schemas and the diff of the two results.
VARIABLES schema1, schema2, flat1, flat2, flat_diff, flat_pc

\* One call of a function of the scraper: its name with its arguments, and
\* what it gave back (PyNone while it has not run).
VARIABLES fn_call, fn_ret

\* Scans that write one snapshot at the same time: for each the items it
\* has to put with the number of those it has put, and (history) the item
\* last put for each (api_name, timestamp, endpoint, method).
VARIABLES writers, last_write

diffVars == <<old, new, path, diffs, diff_pc>>
cmpVars == <<old_schema, new_schema, changes, cmp_pc>>
storeVars == <<table, backend, store_call, store_ret, put_log>>
scanVars == <<impl, now, scans, scan_pc, api_i, attempt, result_ts, current_endpoints,
              snapshot, previous_schema, scan_results, published, response,
              prior, hist, faults, metadata_table>>
flatVars == <<schema1, schema2, flat1, flat2, flat_diff, flat_pc>>
fnVars == <<fn_call, fn_ret>>
raceVars == <<writers, last_write>>
restVars == <<fnVars, raceVars>>

vars == <<diffVars, cmpVars, storeVars, scanVars, flatVars, restVars>>

\* No function of the scraper is being called.
FnOff == fn_call = [op |-> "none"] /\ fn_ret = PyNone

\* No scans are writing side by side.
RaceOff == writers = <<>> /\ last_write = EmptyTable

\* Nothing else is going on.
RestOff == FnOff /\ RaceOff

\* No schema is being formatted.
FlatOff ==
    /\ schema1 = PyNone /\ schema2 = PyNone /\ flat1 = PyNone /\ flat2 = PyNone
    /\ flat_diff = <<>> /\ flat_pc = "off"

\* No diff call is in progress.
DiffOff ==
    /\ old = PyNone /\ new = PyNone /\ path = "" /\ diffs = <<>> /\ diff_pc = "off"

\* No comparison call is in progress.
CmpOff ==
    /\ old_schema = <<>> /\ new_schema = <<>> /\ changes = NoChanges("none") /\ cmp_pc = "off"

NoCall == [op |-> "none", n |-> 0]

\* The store adapter is not in use.
StoreOff ==
    /\ table = EmptyTable /\ backend = "available" /\ store_call = NoCall
    /\ store_ret = PyNone /\ put_log = EmptyTable

\* time.time() when the model starts. Timestamps of the same number of
\* digits, as those of one epoch are.
ClockStart == 10

NoSnapshot == [timestamp |-> 0, endpoints_count |-> 0]
NoResponse == [statusCode |-> 0]

\* The locals of the loop body before a source is scanned.
LoopLocalsReset ==
    /\ attempt' = 0
    /\ result_ts' = now
    /\ current_endpoints' = <<>>
    /\ snapshot' = NoSnapshot
    /\ previous_schema' = <<>>
    /\ prior' = {}

\* No scanner is deployed.
ScanOff ==
    /\ impl = "none" /\ now = ClockStart /\ scans = 0 /\ scan_pc = "off" /\ api_i = 0
    /\ attempt = 0 /\ result_ts = 0 /\ current_endpoints = <<>> /\ snapshot = NoSnapshot
    /\ previous_schema = <<>> /\ scan_results = <<>> /\ published = <<>>
    /\ response = NoResponse /\ prior = {} /\ hist = <<>> /\ faults = 0
    /\ metadata_table = {}

InitDiff ==
    /\ \E pair \in DiffInputs : old = pair[1] /\ new = pair[2]
    /\ path = ""
    /\ diffs = <<>>
    /\ diff_pc = "call"
    /\ CmpOff
    /\ StoreOff
    /\ ScanOff
    /\ FlatOff
    /\ RestOff

\* POST /diff-schemas: diff_schema_versions(old_schema, new_schema)
DiffSchemaVersions ==
    /\ diff_pc = "call"
    /\ diffs' = diff_schema_versions(old, new)
    /\ path' = ""
    /\ diff_pc' = "return"
    /\ UNCHANGED <<old, new, cmpVars, flatVars, restVars, storeVars, scanVars>>

\* diff_schemas called below the root, as its recursion calls it
DiffSchemas ==
    /\ diff_pc = "call"
    /\ \E p \in {"p"} :
        /\ diffs' = diff_schemas(old, new, p)
        /\ path' = p
    /\ diff_pc' = "return"
    /\ UNCHANGED <<old, new, cmpVars, flatVars, restVars, storeVars, scanVars>>

NextDiff == DiffSchemaVersions \/ DiffSchemas

SpecDiff == InitDiff /\ [][NextDiff]_vars

(***************************************************************************)
(* Calls of the diff on trees whose keys look like paths                   *)
(*                                                                         *)
(* A JSON key is any string: "a/b" and "a[0]" are keys (the keys of the    *)
(* paths object of an OpenAPI document all hold slashes).                  *)
(***************************************************************************)
\* The values under the key "a".
NestedValues ==
    {EmptyDict, EmptyList}
    \cup { PyDict([k \in {"b"} |-> x]) : x \in {PyInt(1), PyInt(2)} }
    \cup { PyList(<<x>>) : x \in {PyInt(1), PyInt(2)} }

\* Objects with the key "a" and any of the keys "a/b" and "a[0]".
PathLikeKeyTrees ==
    { PyDict([k \in {"a"} \cup K |-> IF k = "a" THEN nested ELSE PyInt(1)]) :
        nested \in NestedValues, K \in SUBSET {"a/b", "a[0]"} }

InitDiffKeys ==
    /\ old \in PathLikeKeyTrees
    /\ new \in PathLikeKeyTrees
    /\ path = ""
    /\ diffs = <<>>
    /\ diff_pc = "call"
    /\ CmpOff
    /\ StoreOff
    /\ ScanOff
    /\ FlatOff
    /\ RestOff

SpecDiffKeys == InitDiffKeys /\ [][NextDiff]_vars

(***************************************************************************)
(* Calls of the endpoint-set comparison                                    *)
(***************************************************************************)
InitCompare ==
    /\ old_schema \in Snapshots
    /\ new_schema \in Snapshots
    /\ changes = NoChanges("none")
    /\ cmp_pc = "call"
    /\ DiffOff
    /\ StoreOff
    /\ ScanOff
    /\ FlatOff
    /\ RestOff

\* compare_schemas(old_schema, new_schema) of app/
CompareSchemas ==
    /\ cmp_pc = "call"
    /\ changes' = compare_schemas(old_schema, new_schema)
    /\ cmp_pc' = "return"
    /\ UNCHANGED <<old_schema, new_schema, diffVars, flatVars, restVars, storeVars, scanVars>>

\* SchemaComparator.compare_schemas(old_schema, new_schema) of src/app/
ComparatorCompareSchemas ==
    /\ cmp_pc = "call"
    /\ changes' = SchemaComparator_compare_schemas(old_schema, new_schema)
    /\ cmp_pc' = "comparator_return"
    /\ UNCHANGED <<old_schema, new_schema, diffVars, flatVars, restVars, storeVars, scanVars>>

NextCompare == CompareSchemas \/ ComparatorCompareSchemas

SpecCompare == InitCompare /\ [][NextCompare]_vars

(***************************************************************************)
(* Calls of the store adapter (utils/dynamodb_snapshots.py)                *)
(***************************************************************************)
\* Calls of the adapter in one run.
MaxStoreCalls == 3

StoreApis == {"PetStore", "GitHub"}
StoreTimestamps == {9, 10}
StoreEndpoints == {"/pets", "/pets/{id}"}
StoreMethods == {"get", "POST"}
\* The (schema, metadata) pairs the adapter is called with.
StorePayloads == {
    <<PyDict([input |-> EmptyDict, output |-> EmptyDict]), PyNone>>,
    <<PyDict([input |-> PyDict([maximum |-> PyFloat(1)]), output |-> EmptyDict]),
      PyDict([auth_type |-> PyStr("none"), source_url |-> PyStr("http://example.com")])>>
}

InitStore ==
    /\ table = EmptyTable
    /\ backend = "available"
    /\ store_call = NoCall
    /\ store_ret = PyNone
    /\ put_log = EmptyTable
    /\ DiffOff
    /\ CmpOff
    /\ ScanOff
    /\ FlatOff
    /\ RestOff

\* The backend becomes unreachable, or reachable again.
BackendChanges ==
    /\ store_call.n < MaxStoreCalls
    /\ \E b \in BackendStates \ {backend} : backend' = b
    /\ store_call' = [op |-> "none", n |-> store_call.n + 1]
    /\ UNCHANGED <<table, store_ret, put_log, diffVars, cmpVars, flatVars, restVars, scanVars>>

FourPartKey(item) == <<item.api_name, item.timestamp, item.endpoint, item.method>>

\* What a call of the adapter gives back: a value, or an exception.
Returned(kind, value) == [raised |-> "none", kind |-> kind, value |-> value]
Raised(err) == [raised |-> err, kind |-> "none", value |-> PyNone]

\* store_schema_snapshot(api_name, endpoint, method, schema, metadata, timestamp)
store_schema_snapshot(op, api_name, endpoint, method, schema, metadata, timestamp) ==
    LET item == SnapshotItem(api_name, endpoint, method, schema, metadata, timestamp)
    IN  /\ store_call.n < MaxStoreCalls
        /\ store_call' = [op |-> op, n |-> store_call.n + 1, api_name |-> api_name,
                          endpoint |-> endpoint, method |-> method, schema |-> schema,
                          metadata |-> metadata, timestamp |-> timestamp, before |-> table]
        /\ IF backend = "available"
              THEN /\ table' = PutItem(table, item)
                   /\ store_ret' = Returned("item", item)
                   /\ put_log' = [k \in DOMAIN put_log \cup {FourPartKey(item)} |->
                                    IF k = FourPartKey(item)
                                        THEN [item |-> item, method |-> method,
                                              schema |-> schema, metadata |-> metadata,
                                              seq |-> store_call.n + 1]
                                        ELSE put_log[k]]
              ELSE /\ store_ret' =
                        IF Swallowed(backend)
                            THEN Returned("item",
                                    EchoItem(api_name, endpoint, method, schema, metadata, timestamp))
                            ELSE Raised(backend)
                   /\ UNCHANGED <<table, put_log>>
        /\ UNCHANGED <<backend, diffVars, cmpVars, flatVars, restVars, scanVars>>

StoreSchemaSnapshot ==
    \E a \in StoreApis, e \in StoreEndpoints, m \in StoreMethods, pl \in StorePayloads,
       ts \in StoreTimestamps :
        store_schema_snapshot("store_schema_snapshot", a, e, m, pl[1], pl[2], ts)

\* update_schema_snapshot: store_schema_snapshot under another name
UpdateSchemaSnapshot ==
    \E a \in StoreApis, e \in StoreEndpoints, m \in StoreMethods, pl \in StorePayloads,
       ts \in StoreTimestamps :
        store_schema_snapshot("update_schema_snapshot", a, e, m, pl[1], pl[2], ts)

(***************************************************************************)
(* The scheduled scanner: what the handlers are made of                    *)
(*                                                                         *)
(* Two handlers are in the repository: app/lambda_functions/               *)
(* scheduled_scanner.py ("app") and src/app/lambda_functions/              *)
(* scheduled_scanner.py ("src"). Both write the schema table.              *)
(***************************************************************************)
Source(name, url) == [name |-> name, url |-> url]

\* apis_to_scan of the two handlers
apis_to_scan(variant) ==
    IF variant = "src"
        THEN << Source("PetStore", "https://petstore.swagger.io/v2/swagger.json"),
                Source("GitHub", "https://api.github.com/v3/swagger.json"),
                Source("Shopify", "https://shopify.dev/api/admin-rest/2023-07/openapi.json") >>
        ELSE << Source("PetStore", "https://petstore.swagger.io/v2/swagger.json"),
                Source("GitHub", "https://api.github.com/v3/swagger.json") >>

\* APIConfig.retry_count
retry_count == 3

HttpMethods == {"GET", "POST", "PUT", "DELETE", "PATCH"}

PyFalse == [t |-> "bool", v |-> 0]

\* One operation of the paths of an OpenAPI document: its path, the key it
\* stands under, and its JSON request body schema if it has a request body.
Operation(op_path, method, has_body, body) ==
    [path |-> op_path, method |-> method, has_body |-> has_body, body |-> body]

\* src: APIScanner._extract_schema, for operations that declare no response
\* and at most an application/json request body.
_extract_schema(details, schema_type) ==
    IF schema_type = "requestBody"
        THEN IF ~details.has_body
                THEN PyDict([type |-> PyStr("none"),
                             description |-> PyStr("No request body required")])
                ELSE PyDict([content_type |-> PyStr("application/json"),
                             schema |-> details.body, required |-> PyFalse])
        ELSE PyDict([type |-> PyStr("none"),
                     description |-> PyStr("No response schema defined")])

\* The endpoint scrape_openapi makes of one operation. The app handler gives
\* every endpoint the same two schemas.
ScrapedEndpoint(variant, details) ==
    [method |-> Upper(details.method), path |-> details.path, auth_type |-> "none",
     input_schema |-> IF variant = "src" THEN _extract_schema(details, "requestBody")
                      ELSE PyDict([type |-> PyStr("none")]),
     output_schema |-> IF variant = "src" THEN _extract_schema(details, "responses")
                       ELSE PyDict([type |-> PyStr("json"), status_code |-> PyStr("200")])]

\* scrape_openapi, after the document is fetched and parsed
scrape_openapi(variant, paths) ==
    LET kept == SelectSeq(paths, LAMBDA details : Upper(details.method) \in HttpMethods)
    IN  [i \in 1..Len(kept) |-> ScrapedEndpoint(variant, kept[i])]

\* datetime.fromtimestamp(timestamp, tz=timezone.utc).isoformat(), for the
\* timestamps of the first minute of the epoch.
IsoFormat(timestamp) == "1970-01-01T00:00:" \o ToString(timestamp) \o "+00:00"

\* The item the scanners put for one endpoint
ScannedItem(api_name, endpoint, source_url, timestamp) ==
    [api_name |-> api_name, endpoint |-> endpoint.path, method |-> endpoint.method,
     timestamp |-> Str(timestamp),
     schema |-> PyDict([input |-> endpoint.input_schema, output |-> endpoint.output_schema]),
     metadata |-> PyDict([auth_type |-> PyStr(endpoint.auth_type),
                          source_url |-> PyStr(source_url),
                          version_ts |-> PyStr(IsoFormat(timestamp))])]

\* The table after put_item of the first k items, in order.
RECURSIVE PutAll(_, _, _)
PutAll(tbl, items, k) ==
    IF k = 0 THEN tbl ELSE PutItem(PutAll(tbl, items, k - 1), items[k])

\* Numbers come out of the table as Decimal.
RECURSIVE FromDynamo(_)
FromDynamo(x) ==
    IF x.t \in {"int", "float"} THEN PyDecimal(x.v)
    ELSE IF x.t = "dict" THEN PyDict([k \in DOMAIN x.v |-> FromDynamo(x.v[k])])
    ELSE IF x.t = "list" THEN PyList([i \in DOMAIN x.v |-> FromDynamo(x.v[i])])
    ELSE x

ReadItem(item) ==
    [item EXCEPT !.schema = FromDynamo(item.schema), !.metadata = FromDynamo(item.metadata)]

\* The order of the sort key: strings compare character by character.
LexLess(a, b) ==
    \/ Len(a) < Len(b) /\ \A i \in 1..Len(a) : a[i] = b[i]
    \/ \E i \in 1..Min(Len(a), Len(b)) :
          a[i] < b[i] /\ \A j \in 1..(i - 1) : a[j] = b[j]

ItemsOfApi(tbl, api_name) == { it \in ItemsOf(tbl) : it.api_name = api_name }

\* get_previous_schema when its queries go through: the items of the API
\* under the greatest timestamp of the table.
get_previous_schema(tbl, api_name) ==
    LET mine == ItemsOfApi(tbl, api_name)
    IN  IF mine = {} THEN <<>>
        ELSE LET latest_timestamp ==
                    CHOOSE t \in { it.timestamp : it \in mine } :
                        \A it \in mine : ~LexLess(t, it.timestamp)
             IN  SetToSeq({ ReadItem(it) : it \in { m \in mine : m.timestamp = latest_timestamp } })

(***************************************************************************)
(* Reads and deletes of the store adapter (utils/dynamodb_snapshots.py)    *)
(***************************************************************************)
\* An optional argument left out (None) or given empty.
Omitted == ""

\* table.query(KeyConditionExpression=Key("api_name").eq(api_name)): the
\* items of the partition, ascending by the sort key.
RECURSIVE Query(_, _)
Query(tbl, api_name) ==
    LET mine == ItemsOfApi(tbl, api_name)
    IN  IF mine = {} THEN <<>>
        ELSE LET first == CHOOSE it \in mine :
                              \A other \in mine : ~LexLess(other.timestamp, it.timestamp)
             IN  <<ReadItem(first)>> \o Query([k \in DOMAIN tbl \ {PrimaryKey(first)} |-> tbl[k]], api_name)

\* What the except clause of a read makes of a failure.
Degraded(err, kind, value) == IF Swallowed(err) THEN Returned(kind, value) ELSE Raised(err)

\* get_schema_snapshots(api_name, endpoint=None, method=None). A key
\* condition on endpoint or method names attributes that are not in the key.
get_schema_snapshots(tbl, b, api_name, endpoint, method) ==
    IF b # "available" THEN Degraded(b, "list", <<>>)
    ELSE IF endpoint # Omitted \/ method # Omitted THEN Raised("ValidationException")
    ELSE Returned("list", Query(tbl, api_name))

get_schema_by_version_any_item(tbl, b, api_name, timestamp, endpoint, method) ==
    IF b # "available" THEN Degraded(b, "none", PyNone)
    ELSE LET items == Query(tbl, api_name)
         IN  IF items = <<>> THEN Returned("none", PyNone) ELSE Returned("item", items[1])

\* get_schema_by_version(api_name, timestamp, endpoint=None, method=None)
get_schema_by_version(tbl, b, api_name, timestamp, endpoint, method) ==
    IF b # "available" THEN Degraded(b, "none", PyNone)
    ELSE IF endpoint # Omitted \/ method # Omitted THEN Raised("ValidationException")
    ELSE LET items == SelectSeq(Query(tbl, api_name), LAMBDA it : it.timestamp = Str(timestamp))
         IN  IF items = <<>> THEN Returned("none", PyNone) ELSE Returned("item", items[1])

DeleteItem_whole_partition(tbl, key) == [k \in { k \in DOMAIN tbl : k[1] # key[1] } |-> tbl[k]]

\* table.delete_item(Key={"api_name": ..., "timestamp": ...})
DeleteItem(tbl, key) == [k \in DOMAIN tbl \ {key} |-> tbl[k]]

\* What the except clause of delete_schema_snapshot makes of a failure.
DegradedDelete(err) ==
    IF Swallowed(err) \/ "ConditionalCheckFailedException" \in Mentions(err)
        THEN Returned("count", 0) ELSE Raised(err)

\* delete_schema_snapshot(api_name, timestamp, endpoint=None, method=None):
\* what it returns and the table it leaves.
delete_schema_snapshot(tbl, b, api_name, timestamp, endpoint, method) ==
    LET key == <<api_name, Str(timestamp)>>
    IN  IF endpoint # Omitted /\ method # Omitted
            THEN IF b # "available" THEN [ret |-> DegradedDelete(b), tbl |-> tbl]
                 ELSE IF /\ key \in DOMAIN tbl
                         /\ tbl[key].endpoint = endpoint
                         /\ tbl[key].method = Upper(method)
                         THEN [ret |-> Returned("count", 1), tbl |-> DeleteItem(tbl, key)]
                         ELSE [ret |-> DegradedDelete("ConditionalCheckFailedException"), tbl |-> tbl]
            ELSE LET items == get_schema_snapshots(tbl, b, api_name, Omitted, Omitted)
                 IN  IF items.raised # "none" THEN [ret |-> DegradedDelete(items.raised), tbl |-> tbl]
                     ELSE LET hits == SelectSeq(items.value, LAMBDA it : it.timestamp = Str(timestamp))
                          IN  [ret |-> Returned("count", Len(hits)),
                               tbl |-> IF hits = <<>> THEN tbl ELSE DeleteItem(tbl, key)]

delete_api_snapshots_first_only(tbl, b, api_name) ==
    LET items == get_schema_snapshots(tbl, b, api_name, Omitted, Omitted)
    IN  IF items.raised # "none" THEN [ret |-> Degraded(items.raised, "count", 0), tbl |-> tbl]
        ELSE [ret |-> Returned("count", Len(items.value)),
              tbl |-> IF items.value = <<>> THEN tbl
                      ELSE DeleteItem(tbl, PrimaryKey(items.value[1]))]

\* delete_api_snapshots(api_name): what it returns and the table it leaves.
delete_api_snapshots(tbl, b, api_name) ==
    LET items == get_schema_snapshots(tbl, b, api_name, Omitted, Omitted)
    IN  IF items.raised # "none" THEN [ret |-> Degraded(items.raised, "count", 0), tbl |-> tbl]
        ELSE [ret |-> Returned("count", Len(items.value)),
              tbl |-> [k \in DOMAIN tbl \ { PrimaryKey(items.value[i]) : i \in DOMAIN items.value } |->
                            tbl[k]]]

\* sorted(...) of API names: the names in the order of their code points.
NameOrder == <<"GitHub", "PetStore">>

\* list_api_names(): the distinct names of a scan of the table, sorted.
list_api_names(tbl, b) ==
    IF b # "available" THEN Degraded(b, "list", <<>>)
    ELSE Returned("list",
            SelectSeq(NameOrder, LAMBDA name : \E it \in ItemsOf(tbl) : it.api_name = name))

\* item.get("metadata", {}).get(key)
MetadataGet(item, key) ==
    IF key \in DOMAIN item.metadata.v THEN item.metadata.v[key] ELSE PyNone

\* One entry of list_api_versions: the items of one timestamp.
VersionInfo(items) ==
    [timestamp |-> items[1].timestamp,
     endpoints_count |-> Len(items),
     methods |-> { items[i].method : i \in DOMAIN items },
     source_url |-> MetadataGet(items[1], "source_url"),
     auth_type |-> MetadataGet(items[1], "auth_type")]

\* sorted(versions, key=timestamp, reverse=True): the timestamps are strings.
RECURSIVE SortedReverse(_)
SortedReverse(versions) ==
    IF versions = {} THEN <<>>
    ELSE LET top == CHOOSE v \in versions :
                        \A w \in versions : ~LexLess(v.timestamp, w.timestamp)
         IN  <<top>> \o SortedReverse(versions \ {top})

\* list_api_versions(api_name)
list_api_versions(tbl, b, api_name) ==
    LET items == get_schema_snapshots(tbl, b, api_name, Omitted, Omitted)
    IN  IF items.raised # "none" THEN Degraded(items.raised, "list", <<>>)
        ELSE LET stamps == { items.value[i].timestamp : i \in DOMAIN items.value }
             IN  Returned("list",
                    SortedReverse({ VersionInfo(SelectSeq(items.value, LAMBDA it : it.timestamp = t)) :
                                    t \in stamps }))

\* The optional endpoint and method arguments of the reads and deletes.
OptionalEndpoints == {Omitted, "/pets"}
OptionalMethods == {Omitted, "get"}

\* A call that leaves the table as it is.
ReadCall(call, ret) ==
    /\ store_call.n < MaxStoreCalls
    /\ store_call' = [call EXCEPT !.n = store_call.n + 1, !.before = table]
    /\ store_ret' = ret
    /\ UNCHANGED <<table, backend, put_log, diffVars, cmpVars, flatVars, restVars, scanVars>>

\* A call that may delete items.
DeleteCall(call, outcome) ==
    /\ store_call.n < MaxStoreCalls
    /\ store_call' = [call EXCEPT !.n = store_call.n + 1, !.before = table]
    /\ store_ret' = outcome.ret
    /\ table' = outcome.tbl
    /\ put_log' = [k \in { k \in DOMAIN put_log : <<k[1], k[2]>> \in DOMAIN outcome.tbl } |-> put_log[k]]
    /\ UNCHANGED <<backend, diffVars, cmpVars, flatVars, restVars, scanVars>>

Call(op, api_name, timestamp, endpoint, method) ==
    [op |-> op, n |-> 0, api_name |-> api_name, timestamp |-> timestamp,
     endpoint |-> endpoint, method |-> method, before |-> EmptyTable]

GetSchemaSnapshots ==
    \E a \in StoreApis, e \in OptionalEndpoints, m \in OptionalMethods :
        ReadCall(Call("get_schema_snapshots", a, 0, e, m),
                 get_schema_snapshots(table, backend, a, e, m))

GetSchemaByVersion ==
    \E a \in StoreApis, ts \in StoreTimestamps, e \in OptionalEndpoints, m \in OptionalMethods :
        ReadCall(Call("get_schema_by_version", a, ts, e, m),
                 get_schema_by_version(table, backend, a, ts, e, m))

DeleteSchemaSnapshot ==
    \E a \in StoreApis, ts \in StoreTimestamps, e \in OptionalEndpoints, m \in OptionalMethods :
        DeleteCall(Call("delete_schema_snapshot", a, ts, e, m),
                   delete_schema_snapshot(table, backend, a, ts, e, m))

DeleteApiSnapshots ==
    \E a \in StoreApis :
        DeleteCall(Call("delete_api_snapshots", a, 0, Omitted, Omitted),
                   delete_api_snapshots(table, backend, a))

ListApiNames ==
    ReadCall(Call("list_api_names", Omitted, 0, Omitted, Omitted),
             list_api_names(table, backend))

ListApiVersions ==
    \E a \in StoreApis :
        ReadCall(Call("list_api_versions", a, 0, Omitted, Omitted),
                 list_api_versions(table, backend, a))

NextStore ==
    \/ StoreSchemaSnapshot
    \/ UpdateSchemaSnapshot
    \/ GetSchemaSnapshots
    \/ GetSchemaByVersion
    \/ DeleteSchemaSnapshot
    \/ DeleteApiSnapshots
    \/ ListApiNames
    \/ ListApiVersions
    \/ BackendChanges

SpecStore == InitStore /\ [][NextStore]_vars

\* str(e) of what was raised
ErrorMessage(raised) ==
    CASE raised = "KeyError" -> "'endpoint'"
      [] raised = "TypeError" -> "unsupported operand type(s) for -: 'dict' and 'dict'"
      [] OTHER -> raised

\* src: asdict(ScanResult(...))
ScanResult(api_name, timestamp, endpoints_count, status, error, changes_detected) ==
    [api_name |-> api_name, timestamp |-> timestamp, endpoints_count |-> endpoints_count,
     status |-> status, error |-> error, changes_detected |-> changes_detected,
     changes_summary |-> PyNone]

\* The result either handler appends for a source that came through.
SuccessResult(variant, api_name, snap, changes_detected) ==
    IF variant = "src"
        THEN ScanResult(api_name, snap.timestamp, snap.endpoints_count, "success", PyNone,
                        changes_detected)
        ELSE [api_name |-> api_name, timestamp |-> snap.timestamp,
              endpoints_count |-> snap.endpoints_count, status |-> "success"]

\* The result either handler appends in its except clause.
ErrorResult(variant, api_name, loop_ts, except_ts, message) ==
    IF variant = "src"
        THEN ScanResult(api_name, loop_ts, 0, "error", PyStr(message), FALSE)
        ELSE [api_name |-> api_name, timestamp |-> except_ts, endpoints_count |-> 0,
              status |-> "error", error |-> PyStr(message)]

(***************************************************************************)
(* The scheduled scanner: lambda_handler                                   *)
(***************************************************************************)
\* Invocations of the handler in one run.
MaxScans == 2

\* The clock stops here.
MaxClock == 11

\* Calls of the table that fail under the scanner in one run.
MaxFaults == 1

NoBody == Operation("/pets", "get", FALSE, PyNone)

\* The paths of the documents the sources serve.
Documents == {
    << Operation("/pets", "parameters", FALSE, PyNone) >>,
    << NoBody >>,
    << NoBody, Operation("/pets", "post", TRUE, PyDict([maxLength |-> PyInt(1)])) >>
}

\* What requests.get, raise_for_status and response.json() end in.
FetchOutcomes ==
    {[ok |-> FALSE, paths |-> <<>>]} \cup {[ok |-> TRUE, paths |-> d] : d \in Documents}

InitScan ==
    /\ impl \in {"app", "src"}
    /\ now = ClockStart
    /\ scans = 0
    /\ scan_pc = "idle"
    /\ api_i = 0
    /\ attempt = 0
    /\ result_ts = 0
    /\ current_endpoints = <<>>
    /\ snapshot = NoSnapshot
    /\ previous_schema = <<>>
    /\ scan_results = <<>>
    /\ published = <<>>
    /\ response = NoResponse
    /\ prior = {}
    /\ metadata_table = {}
    /\ hist = <<>>
    /\ faults = 0
    /\ StoreOff
    /\ DiffOff
    /\ CmpOff
    /\ FlatOff
    /\ RestOff

Api == apis_to_scan(impl)[api_i]

\* What the history keeps of one source: how far the loop body got with it
\* ("fetch", "empty", "store", "compare" where it stopped, "through" when it
\* reached the end), what was scraped, the items of the API before the
\* snapshot was stored, and whether the store and the query went through.
Through(stage, endpoints, before, query_ok, notified) ==
    [api_name |-> Api.name, stage |-> stage, endpoints |-> endpoints, prior |-> before,
     query_ok |-> query_ok, notified |-> notified]

\* The loop is through with the source: results is what it appended.
SourceDone(results, h) ==
    /\ scan_results' = scan_results \o results
    /\ hist' = Append(hist, h)
    /\ LoopLocalsReset
    /\ IF api_i < Len(apis_to_scan(impl))
          THEN api_i' = api_i + 1 /\ scan_pc' = "scrape"
          ELSE api_i' = api_i /\ scan_pc' = "metadata"

\* time.time() moves on, between invocations and while a fetch is awaited.
Tick ==
    /\ scan_pc \in {"idle", "done", "scrape"}
    /\ now < MaxClock
    /\ now' = now + 1
    /\ UNCHANGED <<metadata_table, impl, scans, scan_pc, api_i, attempt, result_ts, current_endpoints,
                   snapshot, previous_schema, scan_results, published, response,
                   prior, hist, faults, diffVars, cmpVars, flatVars, restVars, storeVars>>

\* lambda_handler is invoked (EventBridge, or by hand).
LambdaHandler ==
    /\ scan_pc \in {"idle", "done"}
    /\ scans < MaxScans
    /\ scans' = scans + 1
    /\ scan_pc' = "scrape"
    /\ api_i' = 1
    /\ scan_results' = <<>>
    /\ published' = <<>>
    /\ response' = NoResponse
    /\ hist' = <<>>
    /\ LoopLocalsReset
    /\ UNCHANGED <<metadata_table, impl, now, faults, diffVars, cmpVars, flatVars, restVars, storeVars>>

IsLastAttempt_never(failed) == FALSE

\* if attempt == api_config.retry_count - 1: raise, where failed is the
\* number of attempts that failed before this one.
IsLastAttempt(failed) == failed = retry_count - 1

\* One call of scrape_openapi and what the loop body does right after it.
\* src: a failed attempt is tried again until retry_count attempts are made,
\* then the exception reaches the except clause; no endpoints is an error.
\* app: scrape_openapi returns [] when it fails, and the loop goes on to the
\* next source without a result.
ScrapeOpenapi ==
    /\ scan_pc = "scrape"
    /\ \E outcome \in FetchOutcomes :
        LET endpoints == scrape_openapi(impl, outcome.paths)
        IN  IF impl = "src" /\ ~outcome.ok /\ ~IsLastAttempt(attempt)
                THEN /\ attempt' = attempt + 1
                     /\ UNCHANGED <<scan_pc, api_i, result_ts, current_endpoints, snapshot,
                                    previous_schema, scan_results, prior, hist>>
            ELSE IF impl = "src" /\ ~outcome.ok
                THEN SourceDone(<<ErrorResult(impl, Api.name, result_ts, now, "RequestException")>>,
                                Through("fetch", <<>>, {}, FALSE, FALSE))
            ELSE IF endpoints = <<>>
                THEN SourceDone(IF impl = "src"
                                   THEN <<ErrorResult(impl, Api.name, result_ts, now, "No endpoints found")>>
                                   ELSE <<>>,
                                Through(IF outcome.ok THEN "empty" ELSE "fetch", <<>>, {}, FALSE, FALSE))
            ELSE /\ current_endpoints' = endpoints
                 /\ scan_pc' = "store"
                 /\ UNCHANGED <<api_i, attempt, result_ts, snapshot, previous_schema,
                                scan_results, prior, hist>>
    /\ UNCHANGED <<metadata_table, impl, now, scans, published, response, faults, diffVars, cmpVars, flatVars, restVars, storeVars>>

\* store_schema_snapshot: one put_item for every endpoint, all under
\* int(time.time()) of the call. A put_item that raises ends the loop body
\* in the except clause, with the items before it in the table.
StoreSnapshot ==
    /\ scan_pc = "store"
    /\ \E k \in (IF faults < MaxFaults THEN 0 ELSE Len(current_endpoints))..Len(current_endpoints) :
        LET items == [i \in 1..Len(current_endpoints) |->
                         ScannedItem(Api.name, current_endpoints[i], Api.url, now)]
            before == ItemsOfApi(table, Api.name)
        IN  /\ table' = PutAll(table, items, k)
            /\ faults' = IF k < Len(current_endpoints) THEN faults + 1 ELSE faults
            /\ IF k < Len(current_endpoints)
                  THEN SourceDone(<<ErrorResult(impl, Api.name, result_ts, now, "ClientError")>>,
                                  Through("store", current_endpoints, before, FALSE, FALSE))
                  ELSE /\ snapshot' = [timestamp |-> now, endpoints_count |-> Len(current_endpoints)]
                       /\ prior' = before
                       /\ scan_pc' = "previous"
                       /\ UNCHANGED <<api_i, attempt, result_ts, current_endpoints,
                                      previous_schema, scan_results, hist>>
    /\ UNCHANGED <<metadata_table, impl, now, scans, published, response, diffVars, cmpVars, flatVars, restVars,
                   backend, store_call, store_ret, put_log>>

\* get_previous_schema: [] when a query raises.
GetPreviousSchema ==
    /\ scan_pc = "previous"
    /\ \E query_ok \in {TRUE} \cup {FALSE : b \in {faults < MaxFaults} \ {FALSE}} :
        /\ previous_schema' = IF query_ok THEN get_previous_schema(table, Api.name) ELSE <<>>
        /\ faults' = IF query_ok THEN faults ELSE faults + 1
    /\ scan_pc' = "compare"
    /\ UNCHANGED <<metadata_table, impl, now, scans, api_i, attempt, result_ts, current_endpoints, snapshot,
                   scan_results, published, response, prior, hist, diffVars, cmpVars, flatVars, restVars, storeVars>>

\* The rest of the loop body: the comparison when previous_schema is not
\* empty, the notification when it counts changes, and the result. What the
\* comparison raises reaches the except clause. send_sns_notification and
\* send_change_notification swallow what sns.publish raises (and src sends
\* nothing when SNS_TOPIC_ARN is not set): sns_ok says the message went out.
CompareAndNotify ==
    /\ scan_pc = "compare"
    /\ \E sns_ok \in BOOLEAN :
        LET ch == IF previous_schema = <<>> THEN NoChanges("none")
                  ELSE IF impl = "src"
                      THEN SchemaComparator_compare_schemas(previous_schema, current_endpoints)
                      ELSE compare_schemas(previous_schema, current_endpoints)
            notify == ch.raised = "none" /\ ch.total_changes > 0
        IN  IF ch.raised # "none"
                THEN /\ published' = published
                     /\ SourceDone(<<ErrorResult(impl, Api.name, result_ts, now, ErrorMessage(ch.raised))>>,
                                   Through("compare", current_endpoints, prior, TRUE, FALSE))
                ELSE /\ published' =
                            IF notify /\ sns_ok
                                THEN Append(published, [api_name |-> Api.name,
                                                        timestamp |-> snapshot.timestamp,
                                                        changes |-> ch])
                                ELSE published
                     /\ SourceDone(<<SuccessResult(impl, Api.name, snapshot, notify)>>,
                                   Through("through", current_endpoints, prior,
                                           previous_schema # <<>>, notify /\ sns_ok))
    /\ UNCHANGED <<metadata_table, impl, now, scans, response, faults, diffVars, cmpVars, flatVars, restVars, storeVars>>

HandlerResponse_500_when_none_succeeded(variant, results) ==
    [statusCode |-> IF \E i \in DOMAIN results : results[i].status = "success" THEN 200 ELSE 500,
     total_apis_scanned |-> Len(apis_to_scan(variant)),
     successful_scans |->
        Cardinality({ i \in DOMAIN results : results[i].status = "success" }),
     scan_results |-> results]

\* What lambda_handler returns: the status code and, of the body, the counts
\* of the scan metadata and the results.
HandlerResponse(variant, results) ==
    [statusCode |-> 200,
     total_apis_scanned |-> Len(apis_to_scan(variant)),
     successful_scans |->
        Cardinality({ i \in DOMAIN results : results[i].status = "success" }),
     scan_results |-> results]

\* After the loop: the scan metadata goes to a table of its own under
\* scan_id "scan_<int(time.time())>" (a failure of that put is logged and
\* swallowed), and the handler returns.
StoreScanMetadata ==
    /\ scan_pc = "metadata"
    /\ \E put_ok \in BOOLEAN :
          metadata_table' = IF put_ok THEN metadata_table \cup {now} ELSE metadata_table
    /\ response' = HandlerResponse(impl, scan_results)
    /\ scan_pc' = "done"
    /\ UNCHANGED <<impl, now, scans, api_i, attempt, result_ts, current_endpoints, snapshot,
                   previous_schema, scan_results, published, prior, hist, faults,
                   diffVars, cmpVars, flatVars, restVars, storeVars>>

NextScan ==
    \/ LambdaHandler
    \/ ScrapeOpenapi
    \/ StoreSnapshot
    \/ GetPreviousSchema
    \/ CompareAndNotify
    \/ StoreScanMetadata
    \/ Tick

SpecScan == InitScan /\ [][NextScan]_vars

\* The scanner with the retry loop. A fetch returns or times out
\* (requests.get with timeout), so an attempt that is under way ends.
InitRetry == InitScan /\ impl = "src"

SpecRetry == InitRetry /\ [][NextScan]_vars /\ WF_vars(ScrapeOpenapi)

(***************************************************************************)
(* api_doc_scraper.py: format_shopify_openapi.flatten_schema               *)
(*                                                                         *)
(* A Python dict keeps the order its keys were inserted in, and            *)
(* flatten_schema builds its result in the order of schema['properties'].  *)
(* Here a dict that still has its order is [t |-> "dict", v |-> pairs],    *)
(* pairs a sequence of <<key, value>>; diff_schemas reads a dict through   *)
(* set(d.keys()) and d[key] only, which is the mapping AsMapping gives.    *)
(***************************************************************************)
OrderedDict(pairs) == [t |-> "dict", v |-> pairs]

\* key in d
HasItem(d, key) == \E i \in DOMAIN d.v : d.v[i][1] = key

\* d[key]
GetItem(d, key) == d.v[CHOOSE i \in DOMAIN d.v : d.v[i][1] = key][2]

\* d.get(key) == value
GetEquals(d, key, value) == HasItem(d, key) /\ GetItem(d, key) = value

\* Mutant: the properties of an object come out as the list of their
\* flattened values.
RECURSIVE flatten_schema_as_list(_)
flatten_schema_as_list(schema) ==
    IF schema.t # "dict" THEN schema
    ELSE IF GetEquals(schema, "type", PyStr("object")) /\ HasItem(schema, "properties")
        THEN LET properties == GetItem(schema, "properties").v
             IN  PyList([i \in DOMAIN properties |-> flatten_schema_as_list(properties[i][2])])
    ELSE IF HasItem(schema, "type") THEN GetItem(schema, "type")
    ELSE schema

RECURSIVE flatten_schema(_)
flatten_schema(schema) ==
    IF schema.t # "dict" THEN schema
    ELSE IF GetEquals(schema, "type", PyStr("object")) /\ HasItem(schema, "properties")
        THEN LET properties == GetItem(schema, "properties").v
             IN  OrderedDict([i \in DOMAIN properties |->
                                <<properties[i][1], flatten_schema(properties[i][2])>>])
    ELSE IF GetEquals(schema, "type", PyStr("array")) /\ HasItem(schema, "items")
        THEN PyList(<< flatten_schema(GetItem(schema, "items")) >>)
    ELSE IF HasItem(schema, "type") THEN GetItem(schema, "type")
    ELSE schema

\* The dict as diff_schemas reads it: its keys and the value of each.
RECURSIVE AsMapping(_)
AsMapping(x) ==
    IF x.t = "dict"
        THEN PyDict([k \in { x.v[i][1] : i \in DOMAIN x.v } |-> AsMapping(GetItem(x, k))])
    ELSE IF x.t = "list" THEN PyList([i \in DOMAIN x.v |-> AsMapping(x.v[i])])
    ELSE x

\* Properties an object schema declares.
MaxProperties == 2

PropertyNames == {"id", "name", "tags"}

TypeSchema(type) == OrderedDict(<< <<"type", PyStr(type)>> >>)

ObjectSchema(properties) ==
    OrderedDict(<< <<"type", PyStr("object")>>, <<"properties", OrderedDict(properties)>> >>)

\* The schemas of the properties: a string, an array of strings, and an
\* object written with its two properties in either order.
PropertySchemas == {
    TypeSchema("string"),
    OrderedDict(<< <<"type", PyStr("array")>>, <<"items", TypeSchema("string")>> >>),
    ObjectSchema(<< <<"id", TypeSchema("integer")>>, <<"name", TypeSchema("string")>> >>),
    ObjectSchema(<< <<"name", TypeSchema("string")>>, <<"id", TypeSchema("integer")>> >>)
}

\* The sequences of n pairs with distinct names from the given set.
RECURSIVE PropertyLists(_, _)
PropertyLists(names, n) ==
    IF n = 0 THEN {<<>>}
    ELSE UNION { { << <<k, ps>> >> \o rest : ps \in PropertySchemas,
                                             rest \in PropertyLists(names \ {k}, n - 1) } :
                 k \in names }

ObjectSchemas(names) == { ObjectSchema(pl) : pl \in PropertyLists(names, Cardinality(names)) }

\* Two object schemas that declare the same property names.
FlattenInputs ==
    UNION { ObjectSchemas(names) \X ObjectSchemas(names) :
            names \in { ns \in SUBSET PropertyNames : Cardinality(ns) \in 1..MaxProperties } }

InitFlatten ==
    /\ \E pair \in FlattenInputs : schema1 = pair[1] /\ schema2 = pair[2]
    /\ flat1 = PyNone
    /\ flat2 = PyNone
    /\ flat_diff = <<>>
    /\ flat_pc = "format"
    /\ DiffOff
    /\ CmpOff
    /\ StoreOff
    /\ ScanOff
    /\ RestOff

\* format_shopify_openapi: flatten_schema of the schema of each endpoint
FormatShopifyOpenapi ==
    /\ flat_pc = "format"
    /\ flat1' = flatten_schema(schema1)
    /\ flat2' = flatten_schema(schema2)
    /\ flat_pc' = "diff"
    /\ UNCHANGED <<schema1, schema2, flat_diff, diffVars, cmpVars, storeVars, scanVars, restVars>>

\* diff_schema_versions of the two flattened schemas
DiffFlattened ==
    /\ flat_pc = "diff"
    /\ flat_diff' = diff_schema_versions(AsMapping(flat1), AsMapping(flat2))
    /\ flat_pc' = "return"
    /\ UNCHANGED <<schema1, schema2, flat1, flat2, diffVars, cmpVars, storeVars, scanVars, restVars>>

NextFlatten == FormatShopifyOpenapi \/ DiffFlattened

SpecFlatten == InitFlatten /\ [][NextFlatten]_vars

(***************************************************************************)
(* api_doc_scraper.py: _resolve_schema_ref                                 *)
(*                                                                         *)
(* A reference string is the sequence of its pieces: "#", "/" and the key  *)
(* names, so that "#/components/schemas/Pet" is                            *)
(* <<"#", "/", "components", "/", "schemas", "/", "Pet">>.                 *)
(***************************************************************************)
\* "#/" + "/".join(parts)
RefString(parts) ==
    <<"#">> \o [i \in 1..(2 * Len(parts)) |-> IF i % 2 = 1 THEN "/" ELSE parts[i \div 2]]

\* ref_path.startswith('#/')
StartsWithHashSlash(ref_path) ==
    Len(ref_path) >= 2 /\ ref_path[1] = "#" /\ ref_path[2] = "/"

\* ref_path.split('/'), for a path whose pieces are single keys
RECURSIVE Split(_)
Split(ref_path) ==
    IF ref_path = <<>> THEN <<"">>
    ELSE IF Head(ref_path) = "/" THEN <<"">> \o Split(Tail(ref_path))
    ELSE LET rest == Split(Tail(ref_path))
         IN  IF rest[1] = "" THEN <<Head(ref_path)>> \o Tail(rest)
             ELSE <<Head(ref_path)>> \o rest

\* {"$ref": ref_path}
RefNode(parts) == PyDict([k \in {"$ref"} |-> PyStr(RefString(parts))])

IsRefNode(x) == x.t = "dict" /\ "$ref" \in DOMAIN x.v

\* for part in path_parts: current = current.get(part, {})
\* A value that is no dict has no get.
RECURSIVE WalkParts(_, _)
WalkParts(current, path_parts) ==
    IF path_parts = <<>> THEN Returned("value", current)
    ELSE IF current.t # "dict" THEN Raised("AttributeError")
    ELSE WalkParts(IF Head(path_parts) \in DOMAIN current.v
                       THEN current.v[Head(path_parts)] ELSE EmptyDict,
                   Tail(path_parts))

\* _resolve_schema_ref(schema, spec)
_resolve_schema_ref(schema, spec) ==
    IF schema = EmptyDict THEN Returned("value", EmptyDict)
    ELSE IF IsRefNode(schema)
        THEN LET ref_path == schema.v["$ref"].v
                 stripped == IF StartsWithHashSlash(ref_path)
                                THEN SubSeq(ref_path, 3, Len(ref_path)) ELSE ref_path
             IN  WalkParts(spec, Split(stripped))
    ELSE Returned("value", schema)

\* Keys of a pointer, and the longest pointer.
MaxRefDepth == 3
RefKeys == {"components", "schemas", "Pet"}

RECURSIVE SeqsUpTo(_, _)
SeqsUpTo(S, n) ==
    IF n = 0 THEN {<<>>}
    ELSE LET shorter == SeqsUpTo(S, n - 1)
         IN  shorter \cup { <<x>> \o q : x \in S, q \in { r \in shorter : Len(r) = n - 1 } }

Pointers == SeqsUpTo(RefKeys, MaxRefDepth) \ {<<>>}

\* What a document may hold where a schema is expected.
RefLeaves == { PyStr("string"), PyNone, EmptyList, EmptyDict }

\* Documents: a value, or a dict with one key over a smaller document.
RECURSIVE RefDocs(_)
RefDocs(depth) ==
    IF depth = 0 THEN RefLeaves
    ELSE RefLeaves \cup { PyDict([k \in {key} |-> sub]) : key \in RefKeys, sub \in RefDocs(depth - 1) }

\* The schemas handed to _resolve_schema_ref.
RefSchemas ==
    { EmptyDict, PyDict([type |-> PyStr("string")]) } \cup { RefNode(p) : p \in Pointers }

InitResolve ==
    /\ \E schema \in RefSchemas, spec \in RefDocs(MaxRefDepth) \ (RefLeaves \ {EmptyDict}) :
          fn_call = [op |-> "_resolve_schema_ref", schema |-> schema, spec |-> spec]
    /\ fn_ret = PyNone
    /\ DiffOff
    /\ CmpOff
    /\ StoreOff
    /\ ScanOff
    /\ FlatOff
    /\ RaceOff

ResolveSchemaRef ==
    /\ fn_call.op = "_resolve_schema_ref"
    /\ fn_ret = PyNone
    /\ fn_ret' = _resolve_schema_ref(fn_call.schema, fn_call.spec)
    /\ UNCHANGED <<fn_call, diffVars, cmpVars, storeVars, scanVars, flatVars, raceVars>>

NextResolve == ResolveSchemaRef

SpecResolve == InitResolve /\ [][NextResolve]_vars

(***************************************************************************)
(* Schema extraction: api_doc_scraper.py (_extract_input_schema,           *)
(* _extract_output_schema) and APIScanner._extract_schema of               *)
(* src/app/lambda_functions/scheduled_scanner.py                           *)
(*                                                                         *)
(* details['responses'] and a response's or request body's 'content' keep  *)
(* the order of the document: each is a sequence, of [code, content] and   *)
(* of [content_type, schema].                                              *)
(***************************************************************************)
\* code in responses / content_type in content
HasEntry(entries, field, key) == \E i \in DOMAIN entries : entries[i][field] = key

\* responses[code] / content[content_type]
EntryOf(entries, field, key) == entries[CHOOSE i \in DOMAIN entries : entries[i][field] = key]

\* The first of the preferred keys that the entries have, "" when none.
RECURSIVE FirstPresent(_, _, _)
FirstPresent(preferred, entries, field) ==
    IF preferred = <<>> THEN ""
    ELSE IF HasEntry(entries, field, Head(preferred)) THEN Head(preferred)
    ELSE FirstPresent(Tail(preferred), entries, field)

success_codes == <<"200", "201", "202", "204">>

NoneSchema(description) ==
    Returned("value", PyDict([type |-> PyStr("none"), description |-> PyStr(description)]))

UnknownSchema(description) ==
    Returned("value", PyDict([type |-> PyStr("unknown"), description |-> PyStr(description)]))

\* The dict an output schema is returned in, or the exception of the
\* resolution of its reference.
OutputOf(code, content_type, resolved) ==
    IF resolved.raised # "none" THEN resolved
    ELSE Returned("value", PyDict([status_code |-> PyStr(code),
                                   content_type |-> PyStr(content_type),
                                   schema |-> resolved.value,
                                   description |-> PyStr("")]))

\* The success codes, in order, whose response has an application/json
\* content.
JsonCodes(responses) ==
    SelectSeq(success_codes,
              LAMBDA code : /\ HasEntry(responses, "code", code)
                            /\ HasEntry(EntryOf(responses, "code", code).content,
                                        "content_type", "application/json"))

\* api_doc_scraper.py: _extract_output_schema(details, spec)
_extract_output_schema(details, spec) ==
    LET responses == details.responses
    IN  IF responses = <<>> THEN NoneSchema("No response schema defined")
        ELSE IF JsonCodes(responses) # <<>>
            THEN LET code == JsonCodes(responses)[1]
                     content == EntryOf(responses, "code", code).content
                 IN  OutputOf(code, "application/json",
                        _resolve_schema_ref(EntryOf(content, "content_type",
                                                    "application/json").schema, spec))
        ELSE LET first == responses[1]
             IN  IF first.content # <<>>
                    THEN OutputOf(first.code, first.content[1].content_type,
                                  _resolve_schema_ref(first.content[1].schema, spec))
                    ELSE UnknownSchema("Response present but schema unclear")

\* The dict an input schema is returned in.
InputOf(content_type, resolved, required) ==
    IF resolved.raised # "none" THEN resolved
    ELSE Returned("value", PyDict([content_type |-> PyStr(content_type),
                                   schema |-> resolved.value,
                                   required |-> required]))

\* api_doc_scraper.py: _extract_input_schema(details, spec); a request body
\* is its content here, and absent or empty when the content is empty.
_extract_input_schema(details, spec) ==
    LET content == details.requestBody
        preferred_types == <<"application/json", "application/x-www-form-urlencoded",
                             "multipart/form-data">>
        content_type == FirstPresent(preferred_types, content, "content_type")
    IN  IF content = <<>> THEN NoneSchema("No request body required")
        ELSE IF content_type # ""
            THEN InputOf(content_type,
                         _resolve_schema_ref(EntryOf(content, "content_type", content_type).schema, spec),
                         PyFalse)
        ELSE InputOf(content[1].content_type,
                     _resolve_schema_ref(content[1].schema, spec), PyFalse)

\* The (code, content type) pairs APIScanner._extract_schema tries, in order.
ScannerChoices(responses) ==
    LET types == <<"application/json", "application/xml">>
        pairs == [i \in 1..(Len(success_codes) * 2) |->
                    [code |-> success_codes[(i + 1) \div 2], content_type |-> types[2 - (i % 2)]]]
    IN  SelectSeq(pairs,
                  LAMBDA c : /\ HasEntry(responses, "code", c.code)
                             /\ HasEntry(EntryOf(responses, "code", c.code).content,
                                         "content_type", c.content_type))

\* src: APIScanner._extract_schema(details, schema_type, spec); the schema
\* is taken as the document has it.
APIScanner_extract_schema(details, schema_type, spec) ==
    IF schema_type = "requestBody"
        THEN LET content == details.requestBody
                 content_type == FirstPresent(<<"application/json",
                                                "application/x-www-form-urlencoded">>,
                                              content, "content_type")
             IN  IF content = <<>> THEN NoneSchema("No request body required")
                 ELSE IF content_type # ""
                    THEN Returned("value",
                            PyDict([content_type |-> PyStr(content_type),
                                    schema |-> EntryOf(content, "content_type", content_type).schema,
                                    required |-> PyFalse]))
                 ELSE UnknownSchema("Request body present but schema unclear")
        ELSE LET responses == details.responses
                 choices == ScannerChoices(responses)
             IN  IF responses = <<>> THEN NoneSchema("No response schema defined")
                 ELSE IF choices # <<>>
                    THEN Returned("value",
                            PyDict([content_type |-> PyStr(choices[1].content_type),
                                    schema |-> EntryOf(EntryOf(responses, "code", choices[1].code).content,
                                                       "content_type", choices[1].content_type).schema,
                                    status_code |-> PyStr(choices[1].code)]))
                 ELSE UnknownSchema("Response present but schema unclear")

\* Responses of one operation, and content types of one response.
MaxResponses == 2
MaxContentTypes == 2

StatusCodes == {"200", "201", "404"}
ContentTypes == {"application/json", "application/xml"}

PetRef == RefNode(<<"components", "schemas", "Pet">>)

\* The schemas a document gives for a content type.
MediaSchemas ==
    { PyDict([type |-> PyStr("string")]),
      PetRef,
      PyDict([type |-> PyStr("array"), items |-> PetRef]) }

\* The documents the operation stands in: Pet defined, Pet defined with a
\* reference inside, and Pet not defined.
ExtractSpecs ==
    { PyDict([components |-> PyDict([schemas |-> PyDict([Pet |-> pet])])]) :
        pet \in { PyDict([type |-> PyStr("object")]),
                  PyDict([type |-> PyStr("object"),
                          properties |-> PyDict([mother |-> PetRef])]) } }
    \cup { EmptyDict }

\* Sequences of up to n records with distinct values of one field.
DistinctBy(S, n, field) ==
    { q \in SeqsUpTo(S, n) : \A i, j \in DOMAIN q : i # j => q[i][field] # q[j][field] }

Contents ==
    DistinctBy({ [content_type |-> ct, schema |-> sch] : ct \in ContentTypes, sch \in MediaSchemas },
               MaxContentTypes, "content_type")

ResponseLists ==
    DistinctBy({ [code |-> code, content |-> content] : code \in StatusCodes, content \in Contents },
               MaxResponses, "code")

\* The operations: with responses and no request body, or with a request
\* body and no responses.
ExtractDetails ==
    { [responses |-> rs, requestBody |-> <<>>] : rs \in ResponseLists }
    \cup { [responses |-> <<>>, requestBody |-> c] : c \in Contents }

InitExtract ==
    /\ \E op \in {"_extract_output_schema", "_extract_input_schema", "APIScanner._extract_schema"},
          details \in ExtractDetails, spec \in ExtractSpecs :
          fn_call = [op |-> op, details |-> details, spec |-> spec]
    /\ fn_ret = PyNone
    /\ DiffOff
    /\ CmpOff
    /\ StoreOff
    /\ ScanOff
    /\ FlatOff
    /\ RaceOff

ExtractOutputSchema ==
    /\ fn_call.op = "_extract_output_schema"
    /\ fn_ret = PyNone
    /\ fn_ret' = _extract_output_schema(fn_call.details, fn_call.spec)
    /\ UNCHANGED <<fn_call, diffVars, cmpVars, storeVars, scanVars, flatVars, raceVars>>

ExtractInputSchema ==
    /\ fn_call.op = "_extract_input_schema"
    /\ fn_ret = PyNone
    /\ fn_ret' = _extract_input_schema(fn_call.details, fn_call.spec)
    /\ UNCHANGED <<fn_call, diffVars, cmpVars, storeVars, scanVars, flatVars, raceVars>>

\* One call for each of the two schemas of the operation: the scanner's
\* result is the one of the request body when the operation has one.
ExtractSchema ==
    /\ fn_call.op = "APIScanner._extract_schema"
    /\ fn_ret = PyNone
    /\ fn_ret' = APIScanner_extract_schema(fn_call.details,
                    IF fn_call.details.requestBody # <<>> THEN "requestBody" ELSE "responses",
                    fn_call.spec)
    /\ UNCHANGED <<fn_call, diffVars, cmpVars, storeVars, scanVars, flatVars, raceVars>>

NextExtract == ExtractOutputSchema \/ ExtractInputSchema \/ ExtractSchema

SpecExtract == InitExtract /\ [][NextExtract]_vars

(***************************************************************************)
(* Scans of one API that store their snapshot in the same second           *)
(* (store_schema_snapshot of both scheduled_scanner modules)               *)
(***************************************************************************)
\* Scans writing side by side.
MaxWriters == 2

\* The paths of the documents the scans have fetched.
RaceDocuments == {
    << NoBody >>,
    << NoBody, Operation("/pets", "post", TRUE, PyDict([maxLength |-> PyInt(1)])) >>,
    << Operation("/pets", "post", TRUE, PyDict([maxLength |-> PyInt(2)])), NoBody >>
}

\* The items store_schema_snapshot puts for the endpoints, in order.
ItemsToPut(variant, paths, timestamp) ==
    LET endpoints == scrape_openapi(variant, paths)
    IN  [i \in DOMAIN endpoints |->
            ScannedItem("PetStore", endpoints[i], "https://petstore.swagger.io/v2/swagger.json",
                        timestamp)]

InitRace ==
    /\ \E variant \in {"app", "src"} :
          writers \in [1..MaxWriters ->
                        { [items |-> ItemsToPut(variant, d, ClockStart), put |-> 0] :
                            d \in RaceDocuments }]
    /\ last_write = EmptyTable
    /\ table = EmptyTable /\ backend = "available" /\ store_call = NoCall
    /\ store_ret = PyNone /\ put_log = EmptyTable
    /\ DiffOff
    /\ CmpOff
    /\ ScanOff
    /\ FlatOff
    /\ FnOff

\* table.put_item(Item=item) of the next endpoint of one scan: the item is
\* built from the scraped endpoint alone.
PutNextItem ==
    \E w \in DOMAIN writers :
        /\ writers[w].put < Len(writers[w].items)
        /\ LET item == writers[w].items[writers[w].put + 1]
           IN  /\ table' = PutItem(table, item)
               /\ last_write' = [k \in DOMAIN last_write \cup {FourPartKey(item)} |->
                                    IF k = FourPartKey(item) THEN item ELSE last_write[k]]
        /\ writers' = [writers EXCEPT ![w].put = @ + 1]
        /\ UNCHANGED <<backend, store_call, store_ret, put_log,
                       diffVars, cmpVars, scanVars, flatVars, fnVars>>

NextRace == PutNextItem

SpecRace == InitRace /\ [][NextRace]_vars

(***************************************************************************)
(* The manual rescan of the dashboard: rescan_api of dashboard_api.py       *)
(***************************************************************************)
HTTPException(status_code, detail) ==
    [status_code |-> status_code, detail |-> detail, compared |-> <<>>]

\* str(e) of an HTTPException: "<status_code>: <detail>"
StrOfHTTPException(e) == ToString(e.status_code) \o ": " \o e.detail

\* The except clause around the whole body of rescan_api: it catches every
\* Exception, the HTTPException the body raises included.
RescanFailure(err) ==
    IF "NoCredentialsError" \in Mentions(err) \/ "botocore.exceptions" \in Mentions(err)
        THEN HTTPException(503, "AWS credentials not configured")
    ELSE IF "ResourceNotFoundException" \in Mentions(err)
        THEN HTTPException(404, "Schema table not found")
    ELSE HTTPException(500, "Error rescanning API: " \o err)

\* RescanResponse(...), answered with status 200; compared (history) is the
\* snapshot the comparison was given.
RescanResponse(api_name, timestamp, endpoints_count, ch, compared) ==
    [status_code |-> 200, api_name |-> api_name, timestamp |-> timestamp,
     endpoints_count |-> endpoints_count,
     changes_detected |-> ch.total_changes > 0,
     changes_summary |-> [added |-> Len(ch.added_endpoints),
                          removed |-> Len(ch.removed_endpoints),
                          modified |-> Len(ch.modified_endpoints)],
     compared |-> compared]

\* rescan_api: the answer and the table it leaves. scraped is what
\* scrape_openapi ended in, b the state of the backend of the table,
\* timestamp is int(time.time()).
rescan_api(tbl, b, request, scraped, timestamp) ==
    LET endpoints == scrape_openapi("src", scraped.paths)
        items == [i \in DOMAIN endpoints |->
                    ScannedItem(request.api_name, endpoints[i], request.openapi_url,
                                timestamp)]
        stored == PutAll(tbl, items, Len(items))
        previous_items == get_previous_schema(stored, request.api_name)
        ch == compare_schemas(previous_items, endpoints)
    IN  IF ~scraped.ok
            THEN [response |-> RescanFailure(StrOfHTTPException(
                                  HTTPException(400, "Invalid OpenAPI URL: HTTPError"))),
                  table |-> tbl]
        ELSE IF endpoints = <<>>
            THEN [response |-> RescanFailure(StrOfHTTPException(
                                  HTTPException(400, "Invalid OpenAPI URL or no endpoints found for "
                                                     \o request.api_name))),
                  table |-> tbl]
        ELSE IF b # "available"
            THEN [response |-> RescanFailure(b), table |-> tbl]
        ELSE IF previous_items = <<>>
            THEN [response |-> RescanResponse(request.api_name, timestamp, Len(endpoints),
                                              NoChanges("none"), <<>>),
                  table |-> stored]
        ELSE IF ch.raised # "none"
            THEN [response |-> [RescanFailure(ErrorMessage(ch.raised))
                                    EXCEPT !.compared = previous_items],
                  table |-> stored]
        ELSE [response |-> RescanResponse(request.api_name, timestamp, Len(endpoints),
                                          ch, previous_items),
              table |-> stored]

\* The documents a rescan fetches: without paths, and with operations of the
\* HTTP methods only.
RescanDocuments == {<<>>} \cup RaceDocuments

RescanOutcomes ==
    {[ok |-> FALSE, paths |-> <<>>]} \cup {[ok |-> TRUE, paths |-> d] : d \in RescanDocuments}

\* The tables a rescan finds: empty, or holding one earlier snapshot of the
\* API.
RescanTables ==
    {EmptyTable} \cup
    { PutAll(EmptyTable, ItemsToPut("src", d, t), Len(ItemsToPut("src", d, t))) :
        d \in RaceDocuments, t \in {ClockStart - 1, ClockStart} }

InitRescan ==
    /\ table \in RescanTables
    /\ backend \in BackendStates
    /\ \E scraped \in RescanOutcomes :
          fn_call = [op |-> "rescan_api",
                     request |-> [api_name |-> "PetStore",
                                  openapi_url |-> "https://petstore.swagger.io/v2/swagger.json"],
                     scraped |-> scraped, timestamp |-> ClockStart, before |-> table]
    /\ fn_ret = PyNone
    /\ store_call = NoCall /\ store_ret = PyNone /\ put_log = EmptyTable
    /\ DiffOff
    /\ CmpOff
    /\ ScanOff
    /\ FlatOff
    /\ RaceOff

RescanApi ==
    /\ fn_call.op = "rescan_api"
    /\ fn_ret = PyNone
    /\ LET r == rescan_api(table, backend, fn_call.request, fn_call.scraped, fn_call.timestamp)
       IN  /\ fn_ret' = r.response
           /\ table' = r.table
    /\ UNCHANGED <<fn_call, backend, store_call, store_ret, put_log,
                   diffVars, cmpVars, scanVars, flatVars, raceVars>>

NextRescan == RescanApi

SpecRescan == InitRescan /\ [][NextRescan]_vars

(***************************************************************************)
(* Properties of diff_schemas                                              *)
(***************************************************************************)
Count(s, e) == Cardinality({i \in DOMAIN s : s[i] = e})

RECURSIVE SeqSum(_)
SeqSum(s) == IF s = <<>> THEN 0 ELSE Head(s) + SeqSum(Tail(s))

AddsOf(d) == { <<d[i].path, d[i].new>> : i \in { j \in DOMAIN d : d[j].op = "add" } }
RemovesOf(d) == { <<d[i].path, d[i].old>> : i \in { j \in DOMAIN d : d[j].op = "remove" } }

\* C8: diff(A, B) has an add at path P with new value v exactly when
\* diff(B, A) has a remove at P with old value v, and the other way round.
C8_AddRemoveAntisymmetry ==
    diff_pc = "return" =>
        LET back == diff_schemas(new, old, path)
        IN  /\ AddsOf(diffs) = RemovesOf(back)
            /\ RemovesOf(diffs) = AddsOf(back)

C8_Witness ==
    /\ diff_pc = "return"
    /\ \E i \in DOMAIN diffs : diffs[i].op = "add" /\ diffs[i].new # PyNone
    /\ \E i \in DOMAIN diffs : diffs[i].op = "remove" /\ diffs[i].old # PyNone

\* C9: values of different types at a position give exactly one entry, a
\* change at that position's path with the whole old and new values.
C9_TypeMismatchIsOneChange ==
    (diff_pc = "return" /\ old.t # new.t) =>
        diffs = << [op |-> "change", path |-> path, old |-> old, new |-> new] >>

C9_Witness ==
    /\ diff_pc = "return"
    /\ old.t = "dict" /\ new.t = "list"
    /\ DOMAIN old.v # {} /\ Len(new.v) > 0
    /\ Len(diffs) = 1

\* The path the claim gives a key: path/key, and the bare key at the top level.
ClaimedKeyPath(p, k) == IF p = "" THEN k ELSE p \o "/" \o k

\* How often the claim expects entry e in the diff of two objects.
ExpectedInObjectDiff(e) ==
    LET only_old == DOMAIN old.v \ DOMAIN new.v
        only_new == DOMAIN new.v \ DOMAIN old.v
        shared == SetToSeq(DOMAIN old.v \cap DOMAIN new.v)
    IN  Cardinality({ k \in only_old :
            e = [op |-> "remove", path |-> ClaimedKeyPath(path, k), old |-> old.v[k], new |-> PyNone] })
        + Cardinality({ k \in only_new :
            e = [op |-> "add", path |-> ClaimedKeyPath(path, k), old |-> PyNone, new |-> new.v[k]] })
        + SeqSum([i \in 1..Len(shared) |->
            Count(diff_schemas(old.v[shared[i]], new.v[shared[i]], ClaimedKeyPath(path, shared[i])), e)])

ObjectDiffEntries ==
    LET only_old == DOMAIN old.v \ DOMAIN new.v
        only_new == DOMAIN new.v \ DOMAIN old.v
        shared == DOMAIN old.v \cap DOMAIN new.v
    IN  { [op |-> "remove", path |-> ClaimedKeyPath(path, k), old |-> old.v[k], new |-> PyNone] :
            k \in only_old }
        \cup { [op |-> "add", path |-> ClaimedKeyPath(path, k), old |-> PyNone, new |-> new.v[k]] :
            k \in only_new }
        \cup UNION { Range(diff_schemas(old.v[k], new.v[k], ClaimedKeyPath(path, k))) : k \in shared }

\* C10: for two objects the diff holds, each exactly once, a remove per key
\* only in old, an add per key only in new, and the entries of the diff of
\* the two values of each shared key, at path/key (the bare key at the top).
C10_ObjectDiff ==
    (diff_pc = "return" /\ old.t = "dict" /\ new.t = "dict") =>
        \A e \in Range(diffs) \cup ObjectDiffEntries :
            Count(diffs, e) = ExpectedInObjectDiff(e)

C10_Witness ==
    /\ diff_pc = "return"
    /\ path = ""
    /\ old.t = "dict" /\ new.t = "dict"
    /\ DOMAIN old.v \ DOMAIN new.v # {}
    /\ DOMAIN new.v \ DOMAIN old.v # {}
    /\ \E i \in DOMAIN diffs : diffs[i].op = "change" /\ diffs[i].path \in DOMAIN old.v
    /\ Len(diffs) = 3

\* The path the claim gives position i of an array (i counted from 0).
ClaimedIndexPath(p, i) == p \o "[" \o ToString(i) \o "]"

\* How often the claim expects entry e in the diff of two arrays.
ExpectedInArrayDiff(e) ==
    LET shorter == IF Len(old.v) < Len(new.v) THEN Len(old.v) ELSE Len(new.v)
    IN  SeqSum([i \in 1..shorter |->
            Count(diff_schemas(old.v[i], new.v[i], ClaimedIndexPath(path, i - 1)), e)])
        + Cardinality({ i \in (shorter + 1)..Len(old.v) :
            e = [op |-> "remove", path |-> ClaimedIndexPath(path, i - 1), old |-> old.v[i], new |-> PyNone] })
        + Cardinality({ i \in (shorter + 1)..Len(new.v) :
            e = [op |-> "add", path |-> ClaimedIndexPath(path, i - 1), old |-> PyNone, new |-> new.v[i]] })

ArrayDiffEntries ==
    LET shorter == IF Len(old.v) < Len(new.v) THEN Len(old.v) ELSE Len(new.v)
    IN  UNION { Range(diff_schemas(old.v[i], new.v[i], ClaimedIndexPath(path, i - 1))) : i \in 1..shorter }
        \cup { [op |-> "remove", path |-> ClaimedIndexPath(path, i - 1), old |-> old.v[i], new |-> PyNone] :
                i \in (shorter + 1)..Len(old.v) }
        \cup { [op |-> "add", path |-> ClaimedIndexPath(path, i - 1), old |-> PyNone, new |-> new.v[i]] :
                i \in (shorter + 1)..Len(new.v) }

ListTruncationOld == PyDict([arr |-> PyList(<<PyInt(1), PyInt(2), PyInt(3)>>)])
ListTruncationNew == PyDict([arr |-> PyList(<<PyInt(1), PyInt(4)>>)])

\* C11: two arrays are compared by position: the diff holds, each exactly
\* once, the entries of the diff of the two elements at every index below the
\* shorter length (at path[i]), a remove per index only the old array has and
\* an add per index only the new array has; and the diff of {arr: [1, 2, 3]}
\* and {arr: [1, 4]} is a change at arr[1] (2 to 4) and a remove at arr[2]
\* (old 3), nothing else.
C11_ArrayDiffByPosition ==
    /\ (diff_pc = "return" /\ old.t = "list" /\ new.t = "list") =>
            \A e \in Range(diffs) \cup ArrayDiffEntries :
                Count(diffs, e) = ExpectedInArrayDiff(e)
    /\ (diff_pc = "return" /\ path = "" /\ old = ListTruncationOld /\ new = ListTruncationNew) =>
            /\ Len(diffs) = 2
            /\ Range(diffs) =
                  { [op |-> "change", path |-> "arr[1]", old |-> PyInt(2), new |-> PyInt(4)],
                    [op |-> "remove", path |-> "arr[2]", old |-> PyInt(3), new |-> PyNone] }

C11_Witness ==
    /\ diff_pc = "return"
    /\ old.t = "list" /\ new.t = "list"
    /\ Len(old.v) > Len(new.v) /\ Len(new.v) > 0
    /\ \E i \in DOMAIN diffs : diffs[i].op = "change"
    /\ \E i \in DOMAIN diffs : diffs[i].op = "remove"

\* C12: a key that holds null on one side and is absent from the other is
\* a present key: the diff has exactly one entry at its path, a remove (key
\* only in old) or an add (key only in new) with old = null and new = null,
\* never a change and never nothing; so diff({a: null}, {}) is the one
\* remove at a and diff({}, {a: null}) the one add at a.
C12_NullIsNotMissing ==
    (diff_pc = "return" /\ old.t = "dict" /\ new.t = "dict") =>
        /\ \A k \in DOMAIN old.v \ DOMAIN new.v :
              old.v[k] = PyNone =>
                \E i \in DOMAIN diffs :
                    /\ diffs[i] = [op |-> "remove", path |-> ClaimedKeyPath(path, k),
                                   old |-> PyNone, new |-> PyNone]
                    /\ \A j \in DOMAIN diffs \ {i} : diffs[j].path # ClaimedKeyPath(path, k)
        /\ \A k \in DOMAIN new.v \ DOMAIN old.v :
              new.v[k] = PyNone =>
                \E i \in DOMAIN diffs :
                    /\ diffs[i] = [op |-> "add", path |-> ClaimedKeyPath(path, k),
                                   old |-> PyNone, new |-> PyNone]
                    /\ \A j \in DOMAIN diffs \ {i} : diffs[j].path # ClaimedKeyPath(path, k)
        /\ (old = PyDict([a |-> PyNone]) /\ new = EmptyDict /\ path = "") =>
              diffs = << [op |-> "remove", path |-> "a", old |-> PyNone, new |-> PyNone] >>
        /\ (old = EmptyDict /\ new = PyDict([a |-> PyNone]) /\ path = "") =>
              diffs = << [op |-> "add", path |-> "a", old |-> PyNone, new |-> PyNone] >>

C12_Witness ==
    /\ diff_pc = "return"
    /\ path = ""
    /\ old = PyDict([a |-> PyNone])
    /\ new = EmptyDict
    /\ Len(diffs) = 1

\* C13: two OpenAPI object schemas that declare the same properties with
\* the same types, in whatever order (at the top and inside nested objects),
\* have an empty diff once both are flattened.
C13_KeyOrderGivesNoDiff ==
    (flat_pc = "return" /\ AsMapping(schema1) = AsMapping(schema2)) => flat_diff = <<>>

C13_Witness ==
    /\ flat_pc = "return"
    /\ AsMapping(schema1) = AsMapping(schema2)
    /\ schema1 # schema2
    /\ GetItem(schema1, "properties").v[1][1] # GetItem(schema2, "properties").v[1][1]
    /\ flat1 # flat2
    /\ flat_diff = <<>>

(***************************************************************************)
(* Properties of the endpoint-set comparison                               *)
(***************************************************************************)
RefsOf(refs) == { <<refs[i].path, refs[i].method>> : i \in DOMAIN refs }

SchemaAt(schema, key) ==
    (CHOOSE it \in Range(schema) : <<it.endpoint, it.method>> = key).schema

\* C5: compare_schemas reports as added exactly the keys only in the new
\* snapshot, as removed exactly the keys only in the old one, each once; two
\* snapshots with the same endpoints and equal schemas give three empty lists.
C5_AddedRemovedExact ==
    cmp_pc = "return" =>
        /\ changes.raised = "none"
        /\ RefsOf(changes.added_endpoints) = EndpointKeysOf(new_schema) \ EndpointKeysOf(old_schema)
        /\ Len(changes.added_endpoints) = Cardinality(RefsOf(changes.added_endpoints))
        /\ RefsOf(changes.removed_endpoints) = EndpointKeysOf(old_schema) \ EndpointKeysOf(new_schema)
        /\ Len(changes.removed_endpoints) = Cardinality(RefsOf(changes.removed_endpoints))
        /\ ( ( /\ EndpointKeysOf(old_schema) = EndpointKeysOf(new_schema)
               /\ \A k \in EndpointKeysOf(old_schema) :
                    PyEq(SchemaAt(old_schema, k), SchemaAt(new_schema, k)) )
             => ( /\ changes.added_endpoints = <<>>
                  /\ changes.removed_endpoints = <<>>
                  /\ changes.modified_endpoints = <<>> ) )

C5_Witness ==
    /\ cmp_pc = "return"
    /\ Len(old_schema) = 2
    /\ Len(changes.added_endpoints) = 1
    /\ Len(changes.removed_endpoints) = 1
    /\ changes.modified_endpoints = <<>>

\* C6: an endpoint of both snapshots is listed as modified exactly when the
\* tree diff of its two schema payloads is non-empty.
C6_ModifiedIffDiffNonEmpty ==
    cmp_pc \in {"return", "comparator_return"} =>
        /\ changes.raised = "none"
        /\ \A k \in EndpointKeysOf(old_schema) \cap EndpointKeysOf(new_schema) :
                (k \in RefsOf(changes.modified_endpoints))
                    <=> (diff_schemas(SchemaAt(old_schema, k), SchemaAt(new_schema, k), "") # <<>>)

(***************************************************************************)
(* Properties of the store adapter                                         *)
(***************************************************************************)
\* C7: for every (api_name, timestamp, endpoint, method) that was put, the
\* table holds exactly one item, with the schema and metadata of the latest
\* put to that key; a put to another key never replaces or removes it.
C7_FourPartKeyUpsert ==
    \A k \in DOMAIN put_log :
        /\ Cardinality({ it \in ItemsOf(table) : FourPartKey(it) = k }) = 1
        /\ \A it \in ItemsOf(table) :
                FourPartKey(it) = k =>
                    it.schema = put_log[k].item.schema /\ it.metadata = put_log[k].item.metadata

\* The successful puts under (api_name, timestamp) that no delete has undone.
PutsUnder(api_name, timestamp) ==
    { put_log[k] : k \in { k \in DOMAIN put_log : k[1] = api_name /\ k[2] = Str(timestamp) } }

LatestPut(api_name, timestamp) ==
    CHOOSE p \in PutsUnder(api_name, timestamp) :
        \A q \in PutsUnder(api_name, timestamp) : q.seq <= p.seq

\* get_schema_by_version(api_name, timestamp) was called on an available store.
LookupActed ==
    /\ store_call.op = "get_schema_by_version"
    /\ backend = "available"
    /\ store_call.endpoint = Omitted /\ store_call.method = Omitted

\* C14 as stated: the lookup returns the api_name, endpoint, method, schema
\* and metadata that were put, or None when nothing is stored under the key.
C14_LookupReturnsWhatWasPut ==
    LookupActed =>
        IF PutsUnder(store_call.api_name, store_call.timestamp) = {}
            THEN store_ret = Returned("none", PyNone)
            ELSE LET put == LatestPut(store_call.api_name, store_call.timestamp)
                 IN  /\ store_ret.raised = "none" /\ store_ret.kind = "item"
                     /\ store_ret.value.api_name = put.item.api_name
                     /\ store_ret.value.endpoint = put.item.endpoint
                     /\ store_ret.value.method = put.method
                     /\ PyEq(store_ret.value.schema, put.schema)
                     /\ PyEq(store_ret.value.metadata, put.metadata)

\* C14: on an available store, get_schema_by_version(api_name, timestamp)
\* after a put under (api_name, timestamp) returns an item with the api_name
\* and endpoint that were put, the method in upper case, the schema with its
\* numbers as Decimal and the metadata with None turned into {}; when nothing
\* is stored under (api_name, timestamp) it returns None and does not raise.
C14_LookupReturnsStoredForm ==
    LookupActed =>
        IF PutsUnder(store_call.api_name, store_call.timestamp) = {}
            THEN store_ret = Returned("none", PyNone)
            ELSE LET put == LatestPut(store_call.api_name, store_call.timestamp)
                 IN  /\ store_ret.raised = "none" /\ store_ret.kind = "item"
                     /\ store_ret.value.api_name = store_call.api_name
                     /\ store_ret.value.timestamp = Str(store_call.timestamp)
                     /\ store_ret.value.endpoint = put.item.endpoint
                     /\ store_ret.value.method = Upper(put.method)
                     /\ store_ret.value.schema = FromDynamo(JsonDecimal(put.schema))
                     /\ store_ret.value.metadata = FromDynamo(OrEmptyDict(put.metadata))

C14_Witness ==
    /\ LookupActed
    /\ PutsUnder(store_call.api_name, store_call.timestamp) # {}
    /\ store_ret.kind = "item"
    /\ store_ret.value.method = "GET"
    /\ LatestPut(store_call.api_name, store_call.timestamp).method = "get"
    /\ \E it \in ItemsOf(table) : it.timestamp # Str(store_call.timestamp)

\* int(timestamp) of a stored timestamp
RECURSIVE IntOf(_)
IntOf(digits) ==
    IF digits = <<>> THEN 0
    ELSE 10 * IntOf(SubSeq(digits, 1, Len(digits) - 1)) + digits[Len(digits)]

\* C15: list_api_versions(api_name) on an available store returns exactly one
\* entry per distinct timestamp stored for the API, in strictly decreasing
\* order of the timestamps as integers, and each entry's endpoints_count is
\* the number of items stored under that timestamp.
C15_VersionsNewestFirst ==
    (store_call.op = "list_api_versions" /\ backend = "available") =>
        LET versions == store_ret.value
            mine == ItemsOfApi(table, store_call.api_name)
        IN  /\ store_ret.raised = "none"
            /\ { versions[i].timestamp : i \in DOMAIN versions } = { it.timestamp : it \in mine }
            /\ Len(versions) = Cardinality({ it.timestamp : it \in mine })
            /\ \A i \in DOMAIN versions :
                    versions[i].endpoints_count =
                        Cardinality({ it \in mine : it.timestamp = versions[i].timestamp })
            /\ \A i, j \in DOMAIN versions :
                    i < j => IntOf(versions[i].timestamp) > IntOf(versions[j].timestamp)

\* delete_schema_snapshot(api_name, timestamp) was called on an available
\* store without endpoint and method.
DeleteVersionActed ==
    /\ store_call.op = "delete_schema_snapshot"
    /\ backend = "available"
    /\ store_call.endpoint = Omitted /\ store_call.method = Omitted

\* The key the last call named.
CalledKey == <<store_call.api_name, Str(store_call.timestamp)>>

\* Every item of the table before the call that is not under the called key
\* is still in the table as it was, and nothing was added.
OthersUnchanged ==
    /\ DOMAIN table \subseteq DOMAIN store_call.before
    /\ \A k \in DOMAIN store_call.before \ {CalledKey} :
            k \in DOMAIN table /\ table[k] = store_call.before[k]

\* C16: delete_schema_snapshot(api_name, timestamp) without endpoint and
\* method, on an available store, removes every item stored under
\* (api_name, timestamp) and returns their number; afterwards
\* get_schema_by_version(api_name, timestamp) is None, and every item of
\* another timestamp or another API is unchanged.
C16_DeleteVersionRemovesAll ==
    DeleteVersionActed =>
        /\ store_ret = Returned("count",
                Cardinality({ k \in DOMAIN store_call.before : k = CalledKey }))
        /\ CalledKey \notin DOMAIN table
        /\ get_schema_by_version(table, backend, store_call.api_name, store_call.timestamp,
                                 Omitted, Omitted) = Returned("none", PyNone)
        /\ OthersUnchanged

C16_Witness ==
    /\ DeleteVersionActed
    /\ store_ret.value = 1
    /\ CalledKey \in DOMAIN store_call.before
    /\ \E it \in ItemsOf(table) : it.api_name = store_call.api_name

\* The items the last call removed from the table.
Removed == { store_call.before[k] : k \in DOMAIN store_call.before \ DOMAIN table }

\* C17: delete_schema_snapshot with an endpoint filter, on an available
\* store, never removes an item whose endpoint differs from the filter; with
\* endpoint and method given it removes at most the item with that four-part
\* key and returns 1 if it existed and 0 if not; every other item stays as
\* it was.
C17_EndpointFilterSparesOthers ==
    (/\ store_call.op = "delete_schema_snapshot"
     /\ backend = "available"
     /\ store_call.endpoint # Omitted) =>
        LET target == <<store_call.api_name, Str(store_call.timestamp),
                        store_call.endpoint, Upper(store_call.method)>>
            existed == \E it \in ItemsOf(store_call.before) : FourPartKey(it) = target
        IN  /\ \A it \in Removed : it.endpoint = store_call.endpoint
            /\ \A k \in DOMAIN table : k \in DOMAIN store_call.before /\ table[k] = store_call.before[k]
            /\ store_call.method # Omitted =>
                    /\ \A it \in Removed : FourPartKey(it) = target
                    /\ store_ret = Returned("count", IF existed THEN 1 ELSE 0)
                    /\ existed => Cardinality(Removed) = 1

\* C18: on an available store, delete_api_snapshots(api_name) removes every
\* item of the API and returns how many there were (0 when there were none);
\* afterwards list_api_versions(api_name) is empty and list_api_names() does
\* not contain api_name, and the items of every other API are unchanged.
C18_DeleteApiRemovesAll ==
    (store_call.op = "delete_api_snapshots" /\ backend = "available") =>
        /\ store_ret = Returned("count",
                Cardinality(ItemsOfApi(store_call.before, store_call.api_name)))
        /\ ItemsOfApi(table, store_call.api_name) = {}
        /\ list_api_versions(table, backend, store_call.api_name) = Returned("list", <<>>)
        /\ store_call.api_name \notin Range(list_api_names(table, backend).value)
        /\ DOMAIN table \subseteq DOMAIN store_call.before
        /\ \A k \in DOMAIN store_call.before :
                k[1] # store_call.api_name => k \in DOMAIN table /\ table[k] = store_call.before[k]

C18_Witness ==
    /\ store_call.op = "delete_api_snapshots"
    /\ backend = "available"
    /\ store_ret = Returned("count", 2)
    /\ Cardinality(ItemsOfApi(store_call.before, store_call.api_name)) = 2

\* The value an operation of the adapter returns when it degrades.
DegradedValue(call) ==
    CASE call.op \in {"store_schema_snapshot", "update_schema_snapshot"} ->
            Returned("item", EchoItem(call.api_name, call.endpoint, call.method,
                                      call.schema, call.metadata, call.timestamp))
      [] call.op = "get_schema_by_version" -> Returned("none", PyNone)
      [] call.op \in {"get_schema_snapshots", "list_api_names", "list_api_versions"} ->
            Returned("list", <<>>)
      [] call.op \in {"delete_schema_snapshot", "delete_api_snapshots"} ->
            Returned("count", 0)

\* C19: while the backend is unreachable (no credentials, unreachable
\* endpoint, missing table) no operation of the adapter raises:
\* store_schema_snapshot returns an echo of the item it was given,
\* get_schema_by_version None, the lists [] and the deletes 0, and the table
\* is not changed.
C19_UnreachableNeverRaises ==
    (backend \in Unreachable /\ store_call.op # "none") =>
        /\ store_ret.raised = "none"
        /\ store_ret = DegradedValue(store_call)
        /\ table = store_call.before

(***************************************************************************)
(* Properties of the scheduled scanner                                     *)
(***************************************************************************)
\* The results of the running invocation that name the API.
ResultsOf(api_name) ==
    { scan_results[j] : j \in { i \in DOMAIN scan_results : scan_results[i].api_name = api_name } }

RecordedAsError(api_name) ==
    \E r \in ResultsOf(api_name) :
        /\ r.status = "error"
        /\ HasKey(r, "error")
        /\ r.error.t = "str"
        /\ r.error.v # ""

\* C2: in one invocation every configured source is scanned whatever became
\* of the sources before it, and a source whose fetch (or parse) or store
\* failed is in the scan results with status 'error' and an error message.
C2_FailedSourceRecorded ==
    /\ scan_pc \in {"metadata", "done"} =>
          /\ Len(hist) = Len(apis_to_scan(impl))
          /\ \A i \in DOMAIN hist : hist[i].api_name = apis_to_scan(impl)[i].name
    /\ \A i \in DOMAIN hist :
          hist[i].stage \in {"fetch", "store"} => RecordedAsError(hist[i].api_name)

\* What the endpoint-set comparison counts between the items the API had
\* before the scan and the items of the new scrape.
ChangesSince(h) ==
    LET url == (CHOOSE a \in Range(apis_to_scan(impl)) : a.name = h.api_name).url
        scraped == [i \in DOMAIN h.endpoints |-> ScannedItem(h.api_name, h.endpoints[i], url, now)]
    IN  compare_schemas(SetToSeq(h.prior), scraped).total_changes

\* C3: in one scan of one source the notifier is called if and only if the
\* scrape succeeded, the API had a snapshot in the table before this scan,
\* and the endpoint-set comparison of that snapshot with the new scrape
\* counts at least one added, removed or modified endpoint.
C3_NotifiedIffChanged ==
    \A i \in DOMAIN hist :
        hist[i].stage \in {"compare", "through"} =>
            (hist[i].notified <=>
                (hist[i].endpoints # <<>> /\ hist[i].prior # {} /\ ChangesSince(hist[i]) > 0))

\* C4: the first scan of an API the table has nothing of, when the scrape
\* returns at least one endpoint and the snapshot is stored, leaves the
\* snapshot in the table, calls no notifier, and records the source with
\* status 'success'.
C4_FirstScanIsBaseline ==
    \A i \in DOMAIN hist :
        (hist[i].prior = {} /\ hist[i].endpoints # <<>> /\ hist[i].stage \in {"compare", "through"}) =>
            /\ ItemsOfApi(table, hist[i].api_name) # {}
            /\ ~hist[i].notified
            /\ \E r \in ResultsOf(hist[i].api_name) : r.status = "success"

\* C20: whatever the outcomes of the sources, and whether or not the scan
\* metadata could be stored, lambda_handler returns statusCode 200 with the
\* results of the invocation and their counts; an invocation has returned
\* exactly when it is through with its last step.
C20_AlwaysStatus200 ==
    /\ scan_pc = "done" =>
            /\ response.statusCode = 200
            /\ response.scan_results = scan_results
            /\ response.total_apis_scanned = Len(apis_to_scan(impl))
            /\ response.successful_scans =
                    Cardinality({ i \in DOMAIN scan_results : scan_results[i].status = "success" })
    /\ response # NoResponse => scan_pc = "done"

\* Every source of the invocation failed and the scan metadata was not stored.
C20_Witness ==
    /\ scan_pc = "done"
    /\ response.statusCode = 200
    /\ Len(scan_results) = Len(apis_to_scan(impl))
    /\ \A i \in DOMAIN scan_results : scan_results[i].status = "error"
    /\ metadata_table = {}

(***************************************************************************)
(* Properties of the scraper                                               *)
(***************************************************************************)
\* Every key of the pointer exists on the way down from doc.
RECURSIVE KeysExist(_, _)
KeysExist(doc, parts) ==
    \/ parts = <<>>
    \/ /\ doc.t = "dict"
       /\ Head(parts) \in DOMAIN doc.v
       /\ KeysExist(doc.v[Head(parts)], Tail(parts))

RECURSIVE ValueAt(_, _)
ValueAt(doc, parts) ==
    IF parts = <<>> THEN doc ELSE ValueAt(doc.v[Head(parts)], Tail(parts))

\* The keys of the pointer of a reference node.
PointerOf(node) == CHOOSE p \in Pointers : RefNode(p) = node

\* C21: for a pointer #/a/b/c, _resolve_schema_ref returns the value found
\* by walking a, b, c from the root of the document when every key exists,
\* and {} when a key on the way is missing; it never raises, whatever the
\* document holds at the intermediate keys.
C21_ResolveNeverRaises ==
    (/\ fn_call.op = "_resolve_schema_ref"
     /\ fn_ret # PyNone
     /\ IsRefNode(fn_call.schema)) =>
        LET parts == PointerOf(fn_call.schema)
        IN  fn_ret = Returned("value",
                        IF KeysExist(fn_call.spec, parts)
                            THEN ValueAt(fn_call.spec, parts) ELSE EmptyDict)

\* A reference node at some depth of x.
RECURSIVE HasRef(_)
HasRef(x) ==
    \/ IsRefNode(x)
    \/ x.t = "dict" /\ \E k \in DOMAIN x.v : HasRef(x.v[k])
    \/ x.t = "list" /\ \E j \in DOMAIN x.v : HasRef(x.v[j])

\* An extraction has returned a schema (which the caller stores, and later
\* diffs, as it is).
Extracted ==
    /\ fn_call.op \in {"_extract_output_schema", "_extract_input_schema",
                       "APIScanner._extract_schema"}
    /\ fn_ret # PyNone
    /\ fn_ret.raised = "none"

\* C22: no input or output schema that the extraction hands over to be
\* stored and diffed holds a reference ($ref) node, at any depth.
C22_NoReferenceLeft == Extracted => ~HasRef(fn_ret.value)

\* What C25 has _extract_output_schema choose: the response of the first of
\* 200, 201, 202, 204 that is present, and of it application/json if it has
\* it, else its first content type; when none of the four codes is present,
\* the first response with its first content type.
ClaimedResponse(responses) ==
    LET code == FirstPresent(success_codes, responses, "code")
    IN  IF code = "" THEN responses[1] ELSE EntryOf(responses, "code", code)

ClaimedContentType(chosen) ==
    IF /\ chosen.code \in Range(success_codes)
       /\ HasEntry(chosen.content, "content_type", "application/json")
        THEN "application/json" ELSE chosen.content[1].content_type

\* C25: _extract_output_schema returns a node of type 'none' when the
\* operation has no responses; otherwise it takes the response of the first
\* of 200, 201, 202, 204 that is present (the first response when none of
\* them is), and returns its application/json schema if it has one and
\* otherwise the schema of its first content type.
C25_OutputSchemaChoice ==
    (/\ fn_call.op = "_extract_output_schema"
     /\ fn_ret # PyNone
     /\ fn_ret.raised = "none") =>
        LET responses == fn_call.details.responses
            chosen == ClaimedResponse(responses)
            got == fn_ret.value.v
        IN  IF responses = <<>> THEN got.type = PyStr("none")
            ELSE chosen.content # <<>> =>
                    /\ "status_code" \in DOMAIN got
                    /\ got.status_code = PyStr(chosen.code)
                    /\ got.content_type = PyStr(ClaimedContentType(chosen))
                    /\ _resolve_schema_ref(
                            EntryOf(chosen.content, "content_type", ClaimedContentType(chosen)).schema,
                            fn_call.spec) = Returned("value", got.schema)

(***************************************************************************)
(* Properties of the snapshots the scanner writes                          *)
(***************************************************************************)
\* C23: a step of a scan never changes or removes an item that was in the
\* table before the step: what is stored under an (api_name, timestamp)
\* stays as the scan that wrote it left it.
C23_SnapshotsNeverMutated ==
    [][\A k \in DOMAIN table : k \in DOMAIN table' /\ table'[k] = table[k]]_vars

\* Every scan has put all its items.
AllWritten == \A w \in DOMAIN writers : writers[w].put = Len(writers[w].items)

\* C24: when scans of one API have written side by side under the same
\* (api_name, timestamp), then after all have finished the store holds, for
\* every endpoint key that was written, the whole item of the scan that
\* wrote that key last.
C24_LastWriterWinsPerEndpoint ==
    (writers # <<>> /\ AllWritten) =>
        \A k \in DOMAIN last_write :
            \E it \in ItemsOf(table) : FourPartKey(it) = k /\ it = last_write[k]

(***************************************************************************)
(* Properties of the manual rescan                                         *)
(***************************************************************************)
Rescanned == fn_call.op = "rescan_api" /\ fn_ret # PyNone

\* The scrape of the rescan raised or returned no endpoints.
ScrapeGaveNothing ==
    ~fn_call.scraped.ok \/ scrape_openapi("src", fn_call.scraped.paths) = <<>>

\* C26: a manual rescan whose scrape raises or returns no endpoints answers
\* with status 400, not with a 5xx status.
C26_FailedScrapeAnswers400 ==
    (Rescanned /\ ScrapeGaveNothing) => fn_ret.status_code = 400

(***************************************************************************)
(* Properties of the snapshot a scan compares against                      *)
(***************************************************************************)
\* The items, as read, of the latest of the snapshots in items.
LatestSnapshotOf(items) ==
    { ReadItem(it) : it \in { m \in items : \A o \in items : ~LexLess(m.timestamp, o.timestamp) } }

\* C27: the snapshot a scan compares its new scrape against is the latest
\* snapshot the API had in the store before this scan wrote anything (none
\* when the lookup failed), never the snapshot this scan wrote.
C27_ComparedWithEarlierSnapshot ==
    scan_pc = "compare" =>
        \/ previous_schema = <<>>
        \/ Range(previous_schema) = LatestSnapshotOf(prior)

(***************************************************************************)
(* Properties of the retry loop                                            *)
(***************************************************************************)
\* One step of a scanner, seen from the retry loop. The handler of
\* app/lambda_functions has no retry loop: it makes one attempt for a source.
RetryLoopStep ==
    \* a retry stays with the source and records nothing
    /\ attempt' > attempt =>
          /\ attempt' = attempt + 1
          /\ scan_pc = "scrape" /\ scan_pc' = "scrape"
          /\ api_i' = api_i
          /\ scan_results' = scan_results
    \* after a successful attempt the source is not fetched again
    /\ scan_pc \in {"store", "previous", "compare"} =>
          (scan_pc' # "scrape" \/ api_i' # api_i)
    \* the source whose fetch failed for good failed retry_count times, is
    \* recorded with status 'error', and the scan moves on
    /\ (impl = "src" /\ Len(hist') > Len(hist) /\ hist'[Len(hist')].stage = "fetch") =>
          /\ attempt = retry_count - 1
          /\ Len(scan_results') = Len(scan_results) + 1
          /\ scan_results'[Len(scan_results')].api_name = Api.name
          /\ scan_results'[Len(scan_results')].status = "error"
          /\ (api_i' = api_i + 1 /\ scan_pc' = "scrape") \/ scan_pc' = "metadata"

\* The retry loop of every source ends (under SpecRetry).
RetryLoopEnds ==
    \A i \in 1..Len(apis_to_scan("src")) :
        (impl = "src" /\ scan_pc = "scrape" /\ api_i = i) ~> (scan_pc # "scrape" \/ api_i # i)

\* C28: for each source the scan makes at most retry_count (3) fetch
\* attempts and none after a successful one; when the last attempt fails
\* the source is recorded with status 'error' and the scan moves on to the
\* next source. The failed attempts of a source only ever count up, by one,
\* and stay below retry_count, so the retry loop ends.
C28_RetryLoopBounded ==
    /\ [](retry_count = 3 /\ attempt < retry_count)
    /\ [][RetryLoopStep]_vars

\* The third attempt of a source has failed: the source is recorded with
\* status 'error'.
C28_Witness ==
    /\ impl = "src"
    /\ hist # <<>>
    /\ hist[Len(hist)].stage = "fetch"
    /\ scan_results # <<>>
    /\ scan_results[Len(scan_results)].status = "error"

(***************************************************************************)
(* Properties of the results of one invocation                             *)
(***************************************************************************)
\* C29: when lambda_handler returns, scan_results holds exactly one result
\* for each configured source, in configuration order, each with status
\* 'success' or 'error', and successful_scans is the number of results with
\* status 'success'.
C29_OneResultPerSource ==
    scan_pc = "done" =>
        /\ Len(scan_results) = Len(apis_to_scan(impl))
        /\ \A i \in DOMAIN scan_results :
              /\ i <= Len(apis_to_scan(impl)) => scan_results[i].api_name = apis_to_scan(impl)[i].name
              /\ scan_results[i].status \in {"success", "error"}
        /\ response.successful_scans =
              Cardinality({ i \in DOMAIN scan_results : scan_results[i].status = "success" })

(***************************************************************************)
(* Properties of the paths of a diff                                       *)
(***************************************************************************)
\* C30: in the result of one diff_schemas(A, B) call no two entries have
\* the same path, for all trees A and B whatever their key names.
C30_PathsDistinct ==
    diff_pc = "return" =>
        \A i, j \in DOMAIN diffs : diffs[i].path = diffs[j].path => i = j

====
